---- MODULE Spec2Model ----
(***************************************************************************)
(* A model of simulation/simulation.py (nonprofit collaboration            *)
(* simulation): the weighted round-robin sampler, the resource and         *)
(* objective pools, the Player/Team graph, the five negotiation protocols  *)
(* and the round loop of CollaborationModel.run().                         *)
(*                                                                         *)
(* Python objects are modelled by value:                                   *)
(*   - a player is its key in CollaborationModel.players (0 .. P-1);       *)
(*   - a Team object is its position in CollaborationModel.teams (teams    *)
(*     are appended and never removed, so the position is the identity);   *)
(*   - an objective name such as 'a1' is the pair <<"a", "1">>;            *)
(*   - Python's None is the value None below.                              *)
(***************************************************************************)
EXTENDS Integers, Sequences, FiniteSets, Bags, TLC

VARIABLES
    args,                \* the arguments of CollaborationModel.__init__
    random,              \* what sample() and shuffle() return during __init__
    faux_pareto_rounds_without_merges,  \* the attribute, after __init__'s override
    resource_pool,       \* ResourcePool: [high, low, pool]
    objective_pool,      \* ObjectivePool: [num_objs, pool, table]
    resource,            \* Player.resource, per player
    objectives,          \* Player.objectives, per player: index -> <<name, value>>
    team,                \* Player.team, per player: a position in teams
    teams,               \* CollaborationModel.teams: sequence of [index, players]
    dropped_objectives,  \* CollaborationModel.dropped_objectives
    traded_objectives,   \* CollaborationModel.traded_objectives
    dropped_indices,     \* history: the objective indices popped by dropObjective
    pc,                  \* where the program is (see PcValues)
    loop,                \* the locals of run()
    pairs_of_players,    \* the pairs of the current round not yet processed
    last,                \* the last protocol call: [variation, a, b, ret]
    probe,               \* the currentTotal call a test makes: [self, kw]
    scored,              \* the outcome of the last currentTotal call of the test
    raised               \* the exception that ended the program, or "none"

vars == <<args, random, faux_pareto_rounds_without_merges, resource_pool, objective_pool,
          resource, objectives, team, teams, dropped_objectives, traded_objectives,
          dropped_indices, pc, loop, pairs_of_players, last, probe, scored, raised>>

poolVars == <<resource_pool, objective_pool>>
inputVars == <<args, random, faux_pareto_rounds_without_merges, probe>>
entityVars == <<resource, objectives, team, teams, dropped_objectives,
                traded_objectives, dropped_indices>>

PcValues == {"new", "resources", "objectives", "constructed", "shuffle", "round", "done", "raised"}

(***************************************************************************)
(* Bounds of the model.                                                    *)
(***************************************************************************)
MaxPoolPlayers == 16     \* player counts of the pool specification: 0 .. MaxPoolPlayers
MaxObjsPerPlayer == 5    \* objectives per player of the pool specification
MaxRatio == 3            \* high/low ratios: 1 .. MaxRatio
MaxThreshold == 2        \* configured stale-round thresholds: 0 .. MaxThreshold
MaxRounds == 3           \* the round counter of run() (a history variable) stops here
MaxEncounters == 6       \* the counters total_encounters and total_merges stop here
MaxTraded == 4           \* no protocol is called once traded_objectives is this long
MaxStale == 6            \* rounds_without_merges is counted up to here (above every threshold)
MaxTeams == 7            \* no protocol is called once there are this many Team objects
MaxScores == 2            \* currentTotal calls a test makes between two protocol calls

(***************************************************************************)
(* Generic helpers.                                                        *)
(***************************************************************************)
None == -1

Range(s) == {s[i] : i \in DOMAIN s}

\* the sum of the natural numbers f[x], x in S: the size of the bag that holds
\* f[x] + 1 copies of every x, less one copy of each
SumOver(f, S) == BagCardinality([x \in S |-> f[x] + 1]) - Cardinality(S)

RECURSIVE SumSeq(_)
SumSeq(s) == IF s = <<>> THEN 0 ELSE Head(s) + SumSeq(Tail(s))

\* All orderings of the set S, as sequences.
Orderings(S) ==
    {f \in [1..Cardinality(S) -> S] : \A i, j \in 1..Cardinality(S) : f[i] = f[j] => i = j}

\* Python's seq * k: k copies of seq, none when k <= 0.
RECURSIVE Repeat(_, _)
Repeat(s, k) == IF k <= 0 THEN <<>> ELSE s \o Repeat(s, k - 1)

(***************************************************************************)
(* Letters, names and the conversions between them.                        *)
(***************************************************************************)
ascii_uppercase == <<"A", "B", "C", "D">>    \* the prefix of string.ascii_uppercase the model uses

LetterRank(c) == CHOOSE i \in DOMAIN ascii_uppercase : ascii_uppercase[i] = c

\* str.lower() and str.upper() on one letter
lower(c) ==
    CASE c = "A" -> "a" [] c = "B" -> "b" [] c = "C" -> "c" [] c = "D" -> "d" [] OTHER -> c

upper(c) ==
    CASE c = "a" -> "A" [] c = "b" -> "B" [] c = "c" -> "C" [] c = "d" -> "D" [] OTHER -> c

\* str(j) and int(s) on the subscripts 1 and 2
str(j) == CASE j = 1 -> "1" [] j = 2 -> "2"

int(s) == CASE s = "1" -> 1 [] s = "2" -> 2

\* i.lower() + str(j): the objective name of resource letter i and subscript j
ObjectiveName(i, j) == <<lower(i), str(j)>>

\* The order of sorted() on objective names and on letters.
NameRank(n) == 2 * LetterRank(upper(n[1])) + int(n[2])

RECURSIVE SortedNames(_)
SortedNames(S) ==
    IF S = {} THEN <<>>
    ELSE LET x == CHOOSE y \in S : \A z \in S : NameRank(y) <= NameRank(z)
         IN <<x>> \o SortedNames(S \ {x})

RECURSIVE SortedLetters(_)
SortedLetters(S) ==
    IF S = {} THEN <<>>
    ELSE LET x == CHOOSE y \in S : \A z \in S : LetterRank(y) <= LetterRank(z)
         IN <<x>> \o SortedLetters(S \ {x})

\* The iteration order of a dict keyed by objective names is the interpreter's:
\* CPython 2.7 iterates {'a1', .., 'd2'} as a1 a2 b1 b2 c2 c1 d2 d1 (the order of
\* the class docstring, line 1156); an insertion-ordered dict iterates them
\* sorted.  kind says which of the two the run has.
HashRank(n) ==
    IF upper(n[1]) \in {"C", "D"}
    THEN 2 * LetterRank(upper(n[1])) + (3 - int(n[2]))
    ELSE NameRank(n)

RECURSIVE HashOrderedNames(_)
HashOrderedNames(S) ==
    IF S = {} THEN <<>>
    ELSE LET x == CHOOSE y \in S : \A z \in S : HashRank(y) <= HashRank(z)
         IN <<x>> \o HashOrderedNames(S \ {x})

DictItems(keys, kind) == IF kind = "hash" THEN HashOrderedNames(keys) ELSE SortedNames(keys)

(***************************************************************************)
(* The distribution sampler.                                               *)
(***************************************************************************)
\* The first n items of the generator: prop_low, then prop_high * ratio, for ever.
\* (islice(create_distribution_ratios(...), n)).
\* an islice that takes one item too many
Islice_OneMore(cycle, n) == [i \in 1..(n + 1) |-> cycle[((i - 1) % Len(cycle)) + 1]]

Islice(cycle, n) == [i \in 1..n |-> cycle[((i - 1) % Len(cycle)) + 1]]

\* a generator whose cycle holds the high categories once, whatever the ratio
create_distribution_ratios_Once(prop_low, prop_high, ratio) ==
    prop_low \o prop_high

create_distribution_ratios(prop_low, prop_high, ratio) ==
    prop_low \o Repeat(prop_high, ratio)

\* Counter(iterable): the count of every item that occurs
Counter(s) == [c \in Range(s) |-> Cardinality({i \in DOMAIN s : s[i] = c})]

(***************************************************************************)
(* ResourcePool                                                            *)
(***************************************************************************)
\* divide_high_low(resources), with sampled the list sample(letters, len(letters)) gave
divide_high_low(resources, sampled) ==
    LET high_count == resources \div 2
    IN [high |-> SubSeq(sampled, 1, high_count),
        low |-> SubSeq(sampled, high_count + 1, resources)]

ResourcePool(divided, players, ratio) ==
    [high |-> divided.high,
     low |-> divided.low,
     pool |-> Counter(Islice(create_distribution_ratios(divided.low, divided.high, ratio),
                             players))]

(***************************************************************************)
(* ObjectivePool                                                           *)
(***************************************************************************)
\* "A" -> a1, a2 for every letter of the list, in order
SplitObjectives(lst) ==
    [n \in 1..(2 * Len(lst)) |-> ObjectiveName(lst[(n + 1) \div 2], 2 - (n % 2))]

\* ObjectivePool.create_distribution_ratios: the same generator, on objective names
objective_distribution_ratios(prop_low, prop_high, ratio) ==
    prop_low \o Repeat(prop_high, ratio)

\* a valuation that gives the high value to subscript 2
ObjectiveValue_Swapped(name, value_high, value_low) ==
    IF int(name[2]) = 2 THEN value_high ELSE value_low

ObjectiveValue(name, value_high, value_low) ==
    IF int(name[2]) = 1 THEN value_high ELSE value_low

\* The table: for every (name, quantity) of pool.items(), in the order items,
\* quantity rows [name, value].
RECURSIVE ObjectiveTable(_, _, _, _)
ObjectiveTable(items, pool, value_high, value_low) ==
    IF items = <<>> THEN <<>>
    ELSE LET name == Head(items)
         IN [j \in 1..pool[name] |-> <<name, ObjectiveValue(name, value_high, value_low)>>]
            \o ObjectiveTable(Tail(items), pool, value_high, value_low)

\* lines 1171-1192: the prevalent and the rare objective names
ObjectiveLists(rp) ==
    LET list_high == rp.high
        list_low == rp.low
        temp1 == Len(list_high) \div 2
        temp2 == Len(list_low) \div 2
        new_high == SubSeq(list_high, 1, temp1) \o SubSeq(list_low, 1, temp2)
        new_low == SubSeq(list_high, temp1 + 1, Len(list_high))
                   \o SubSeq(list_low, temp2 + 1, Len(list_low))
    IN [high |-> SplitObjectives(new_high), low |-> SplitObjectives(new_low)]

ObjectivePoolCounts(rp, num_players, num_objs_per_player, ratio) ==
    LET objectives_high == ObjectiveLists(rp).high
        objectives_low == ObjectiveLists(rp).low
    IN Counter(Islice(objective_distribution_ratios(objectives_low, objectives_high, ratio),
                      num_players * num_objs_per_player))

ObjectivePool(rp, num_players, num_objs_per_player, ratio, value_high, value_low, items) ==
    [num_objs |-> num_players * num_objs_per_player,
     pool |-> ObjectivePoolCounts(rp, num_players, num_objs_per_player, ratio),
     table |-> ObjectiveTable(items,
                              ObjectivePoolCounts(rp, num_players, num_objs_per_player, ratio),
                              value_high, value_low)]

(***************************************************************************)
(* The Player/Team graph.  The operators below work on a "world" w: the    *)
(* mutable part of the object graph, so that a protocol's statements can   *)
(* be composed in the order the code runs them.  Once an exception is      *)
(* raised (w.raised # "none") the statements that follow do not run.       *)
(***************************************************************************)
World ==
    [objectives |-> objectives, team |-> team, teams |-> teams,
     dropped_objectives |-> dropped_objectives, traded_objectives |-> traded_objectives,
     dropped_indices |-> dropped_indices, raised |-> raised]

Players == DOMAIN resource

\* Python truth value of an objective index or None: None and 0 are false
Truthy(x) == x # None /\ x # 0

Raise(w, exc) == IF w.raised = "none" THEN [w EXCEPT !.raised = exc] ELSE w

\* Team.playerCount and Team.resources (uniquify keeps one of each resource)
playerCount(w, t) == Len(w.teams[t].players)

TeamResources(w, t) == {resource[w.teams[t].players[i]] : i \in DOMAIN w.teams[t].players}

\* list.remove(x): drops the first occurrence of x
RemoveFirst(s, x) ==
    LET i == CHOOSE k \in DOMAIN s : s[k] = x /\ \A j \in 1..(k - 1) : s[j] # x
    IN SubSeq(s, 1, i - 1) \o SubSeq(s, i + 1, Len(s))

\* a joinTeam that does not take the player off the team it leaves
joinTeam_NoLeave(w, self, t) ==
    IF w.raised # "none" THEN w
    ELSE [w EXCEPT !.teams = [@ EXCEPT ![t].players = Append(@, self)],
                   !.team = [@ EXCEPT ![self] = t]]

\* Player.joinTeam(team)
joinTeam(w, self, t) ==
    IF w.raised # "none" THEN w
    ELSE IF self \notin Range(w.teams[w.team[self]].players) THEN Raise(w, "ValueError")
    ELSE LET left == [w.teams EXCEPT ![w.team[self]].players = RemoveFirst(@, self)]
         IN [w EXCEPT !.teams = [left EXCEPT ![t].players = Append(@, self)],
                      !.team = [@ EXCEPT ![self] = t]]

\* Player.dropObjective(objective_to_drop, dropped_objectives_list)
dropObjective(w, self, objective_to_drop) ==
    IF w.raised # "none" THEN w
    ELSE IF objective_to_drop \notin DOMAIN w.objectives[self] THEN Raise(w, "KeyError")
    ELSE LET dropped == w.objectives[self][objective_to_drop]
             rest == DOMAIN w.objectives[self] \ {objective_to_drop}
         IN [w EXCEPT !.objectives[self] = [i \in rest |-> @[i]],
                      !.dropped_objectives = Append(@, dropped),
                      !.dropped_indices = @ \cup {objective_to_drop}]

\* a giveObjective that leaves the objective with the giver as well
giveObjective_Copy(w, self, objective_to_give, receiver) ==
    IF w.raised # "none" THEN w
    ELSE IF objective_to_give \notin DOMAIN w.objectives[self] THEN Raise(w, "KeyError")
    ELSE LET give_away == w.objectives[self][objective_to_give]
         IN [w EXCEPT !.objectives[receiver] =
                          [i \in DOMAIN @ \cup {objective_to_give} |->
                              IF i = objective_to_give THEN give_away ELSE @[i]],
                      !.traded_objectives = Append(@, give_away)]

\* Player.giveObjective(objective_to_give, receiver, traded_objectives_list)
giveObjective(w, self, objective_to_give, receiver) ==
    IF w.raised # "none" THEN w
    ELSE IF objective_to_give \notin DOMAIN w.objectives[self] THEN Raise(w, "KeyError")
    ELSE LET give_away == w.objectives[self][objective_to_give]
             rest == DOMAIN w.objectives[self] \ {objective_to_give}
             popped == [w.objectives EXCEPT ![self] = [i \in rest |-> @[i]]]
         IN [w EXCEPT !.objectives =
                          [popped EXCEPT ![receiver] =
                              [i \in DOMAIN @ \cup {objective_to_give} |->
                                  IF i = objective_to_give THEN give_away ELSE @[i]]],
                      !.traded_objectives = Append(@, give_away)]

(***************************************************************************)
(* Player.currentTotal.  kw holds the keyword arguments; Kw their          *)
(* defaults.  The result is [raised, total].                               *)
(***************************************************************************)
Kw ==
    [test_object |-> None, object_is_team |-> TRUE, new_team |-> FALSE, alone |-> FALSE,
     objective_to_drop |-> None, given_objective |-> None, giver |-> None]

\* the first occurrence of every value of the list s, in order
FirstOccurrences(s) ==
    LET keep == {i \in DOMAIN s : \A j \in 1..(i - 1) : s[j] # s[i]}
    IN [k \in 1..Cardinality(keep) |->
           s[CHOOSE i \in keep : Cardinality({j \in keep : j < i}) = k - 1]]

\* uniquify(seq), seq evaluated once
\* uniquify with the seen-test left out: every occurrence is kept
uniquify_KeepAll(seq) == seq

uniquify(seq) == CHOOSE u \in {FirstOccurrences(s) : s \in {seq}} : TRUE

\* Team.resources(), as the list it is
ResourceList(w, t) ==
    uniquify([i \in DOMAIN w.teams[t].players |-> resource[w.teams[t].players[i]]])

\* lines 1470-1474: details[1] is added once for every resource r[j] of the list
\* that is the upper-cased first letter of the name of objective o[i]
Matches(o, r) ==
    LET val == [i \in DOMAIN o |->
                   o[i][2] * Cardinality({j \in DOMAIN r : r[j] = upper(o[i][1][1])})]
    IN SumOver(val, DOMAIN o)

\* the total of the objectives objs under the resources, each evaluated once
MatchedValue(objs, resources) ==
    CHOOSE total \in {Matches(o, r) : o \in {objs}, r \in {resources}} : TRUE

\* lines 1441-1453, without the deepcopy: `del` and the assignment act on
\* self.objectives itself
TotalObjectives_NoCopy(w, self, kw) ==
    LET own == w.objectives[self]
        drop == kw.objective_to_drop
        given == kw.given_objective
        without == [i \in DOMAIN own \ {drop} |-> own[i]]
        dropMissing == drop \notin DOMAIN own
        giveMissing == given \notin DOMAIN w.objectives[kw.giver]
        with(objs) == [i \in DOMAIN objs \cup {given} |->
                          IF i = given THEN w.objectives[kw.giver][given] ELSE objs[i]]
        Ended(exc, objs) == [raised |-> exc, objectives |-> objs, own |-> objs]
    IN IF Truthy(given) /\ Truthy(drop)
       THEN IF dropMissing THEN Ended("KeyError", own)
            ELSE IF giveMissing THEN Ended("KeyError", without)
            ELSE Ended("none", with(without))
       ELSE IF drop # None
       THEN IF dropMissing THEN Ended("KeyError", own) ELSE Ended("none", without)
       ELSE IF given # None
       THEN IF giveMissing THEN Ended("KeyError", own) ELSE Ended("none", with(own))
       ELSE Ended("none", own)

\* lines 1441-1453: the objectives the total is computed on, and self.objectives
\* after these lines: [raised, objectives, own]
TotalObjectives(w, self, kw) ==
    LET own == w.objectives[self]
        drop == kw.objective_to_drop
        given == kw.given_objective
        without == [i \in DOMAIN own \ {drop} |-> own[i]]
        dropMissing == drop \notin DOMAIN own
        giveMissing == given \notin DOMAIN w.objectives[kw.giver]
        with(objs) == [i \in DOMAIN objs \cup {given} |->
                          IF i = given THEN w.objectives[kw.giver][given] ELSE objs[i]]
        Ended(exc, objs) == [raised |-> exc, objectives |-> objs, own |-> own]
    IN IF Truthy(given) /\ Truthy(drop)
       THEN IF dropMissing \/ giveMissing THEN Ended("KeyError", own)
            ELSE Ended("none", with(without))
       ELSE IF drop # None
       THEN IF dropMissing THEN Ended("KeyError", own) ELSE Ended("none", without)
       ELSE IF given # None
       THEN IF giveMissing THEN Ended("KeyError", own) ELSE Ended("none", with(own))
       ELSE Ended("none", own)

\* the resources of a total that tests a team without the player's own resource
TotalResources_TeamOnly(w, self, kw) ==
    IF kw.alone THEN <<resource[self]>>
    ELSE IF kw.test_object = None THEN ResourceList(w, w.team[self])
    ELSE IF kw.object_is_team THEN ResourceList(w, kw.test_object)
    ELSE IF kw.new_team THEN uniquify(<<resource[self]>> \o <<resource[kw.test_object]>>)
    ELSE uniquify(ResourceList(w, w.team[self]) \o <<resource[kw.test_object]>>)

\* lines 1456-1467: the resources the total is computed with
TotalResources(w, self, kw) ==
    IF kw.alone THEN <<resource[self]>>
    ELSE IF kw.test_object = None THEN ResourceList(w, w.team[self])
    ELSE IF kw.object_is_team
    THEN uniquify(ResourceList(w, kw.test_object) \o <<resource[self]>>)
    ELSE IF kw.new_team THEN uniquify(<<resource[self]>> \o <<resource[kw.test_object]>>)
    ELSE uniquify(ResourceList(w, w.team[self]) \o <<resource[kw.test_object]>>)

\* lines 1455-1476: the total of the objectives o chose, self.objectives
\* being left as o.own
Totalled(w, self, kw, o) ==
    IF o.raised # "none"
    THEN [raised |-> o.raised, total |-> 0, w |-> [w EXCEPT !.objectives[self] = o.own]]
    ELSE [raised |-> "none",
          total |-> MatchedValue(o.objectives, TotalResources(w, self, kw)),
          w |-> [w EXCEPT !.objectives[self] = o.own]]

\* currentTotal with a first check that forgets the missing test object
currentTotal_NoObjectCheck(w, self, kw) ==
    IF kw.object_is_team /\ kw.new_team
    THEN [raised |-> "Exception", total |-> 0, w |-> w]
    ELSE IF kw.giver = None /\ kw.given_objective # None
    THEN [raised |-> "Exception", total |-> 0, w |-> w]
    ELSE CHOOSE r \in {Totalled(w, self, kw, o) : o \in {TotalObjectives(w, self, kw)}} : TRUE

\* Player.currentTotal(**kw): [raised, total, w], w the model after the call
currentTotal(w, self, kw) ==
    IF (kw.object_is_team \/ kw.test_object = None) /\ kw.new_team
    THEN [raised |-> "Exception", total |-> 0, w |-> w]
    ELSE IF kw.new_team /\ kw.object_is_team
    THEN [raised |-> "Exception", total |-> 0, w |-> w]
    ELSE IF kw.giver = None /\ kw.given_objective # None
    THEN [raised |-> "Exception", total |-> 0, w |-> w]
    ELSE CHOOSE r \in {Totalled(w, self, kw, o) : o \in {TotalObjectives(w, self, kw)}} : TRUE

\* Community.total()
CommunityTotal(w) ==
    LET t == [p \in Players |-> currentTotal(w, p, Kw).total]
    IN SumOver(t, Players)

\* a last_team_index that reads the first team of the list
last_team_index_First(w) == w.teams[1].index

\* Community.last_team_index()
last_team_index(w) == w.teams[Len(w.teams)].index

\* Community.potentialTotal(objectives_table)
potentialTotal(objectives_table) ==
    SumSeq([i \in DOMAIN objectives_table |-> objectives_table[i][2]])

(***************************************************************************)
(* Player.best_given_objective.  The dicts good_low, worthless_low, ...    *)
(* are iterated in the interpreter's order, so "the first key" of a class  *)
(* is any key of it: the operator gives the set of the possible results.   *)
(***************************************************************************)
ObjLetter(w, self, i) == upper(w.objectives[self][i][1][1])

good(w, self, pool) == {i \in DOMAIN w.objectives[self] : ObjLetter(w, self, i) \in pool}

worthless(w, self, pool) == DOMAIN w.objectives[self] \ good(w, self, pool)

IsHigh(w, self, i) == int(w.objectives[self][i][1][2]) = 1

good_high(w, self, pool) == {i \in good(w, self, pool) : IsHigh(w, self, i)}

good_low(w, self, pool) == {i \in good(w, self, pool) : ~IsHigh(w, self, i)}

worthless_high(w, self, pool) == {i \in worthless(w, self, pool) : IsHigh(w, self, i)}

worthless_low(w, self, pool) == {i \in worthless(w, self, pool) : ~IsHigh(w, self, i)}

\* other_resource=None, among values that are resource letters
NoResource == "None"

\* one "for index, details in cls.items(): if matches: best = index; break", run
\* when `not best_objective`: the values best_objective may have afterwards
SearchClass(w, self, cls, other_resource, best) ==
    LET hits == {i \in cls : ObjLetter(w, self, i) = other_resource}
    IN IF Truthy(best) \/ hits = {} THEN {best} ELSE hits

\* the part under `if other_resource:`
TargetedChoice(w, self, pool, other_resource) ==
    IF other_resource = NoResource THEN {None}
    ELSE LET s1 == SearchClass(w, self, worthless_low(w, self, pool), other_resource, None)
             s2 == UNION {SearchClass(w, self, worthless_high(w, self, pool), other_resource, b) :
                             b \in s1}
         IN UNION {SearchClass(w, self, good_low(w, self, pool), other_resource, b) : b \in s2}

\* a last part that looks at the unfulfilled high-value objectives first
GenericChoice_HighFirst(w, self, pool, best) ==
    IF Truthy(best) THEN {best}
    ELSE IF worthless_high(w, self, pool) # {} THEN worthless_high(w, self, pool)
    ELSE IF worthless_low(w, self, pool) # {} THEN worthless_low(w, self, pool)
    ELSE IF good_low(w, self, pool) # {} THEN good_low(w, self, pool)
    ELSE IF good_high(w, self, pool) # {} THEN good_high(w, self, pool)
    ELSE {best}

\* the part under the last `if not best_objective:`
GenericChoice(w, self, pool, best) ==
    IF Truthy(best) THEN {best}
    ELSE IF worthless_low(w, self, pool) # {} THEN worthless_low(w, self, pool)
    ELSE IF worthless_high(w, self, pool) # {} THEN worthless_high(w, self, pool)
    ELSE IF good_low(w, self, pool) # {} THEN good_low(w, self, pool)
    ELSE IF good_high(w, self, pool) # {} THEN good_high(w, self, pool)
    ELSE {best}

best_given_objective(w, self, pool, other_resource) ==
    UNION {GenericChoice(w, self, pool, b) : b \in TargetedChoice(w, self, pool, other_resource)}

(***************************************************************************)
(* CollaborationModel.invite and CollaborationModel.move.  The result of   *)
(* a call is [w, ret]: the world after it and the value returned.          *)
(***************************************************************************)
Result(w, ret) == [w |-> w, ret |-> ret]

\* `if objective_to_drop: ...dropObjective(...)`, `if objective_to_give: ...giveObjective(...)`
PayCost(w, payer, receiver, objective_to_drop, objective_to_give) ==
    LET w1 == IF Truthy(objective_to_drop) THEN dropObjective(w, payer, objective_to_drop) ELSE w
    IN IF Truthy(objective_to_give) THEN giveObjective(w1, payer, objective_to_give, receiver)
       ELSE w1

invite(w, inviter, invitee, delta_if_move, delta_if_stay, objective_to_drop, objective_to_give) ==
    IF Truthy(objective_to_drop) /\ Truthy(objective_to_give)
    THEN Result(Raise(w, "Exception"), FALSE)
    ELSE IF delta_if_move >= 0 /\ delta_if_move > delta_if_stay
    THEN LET w1 == PayCost(w, inviter, invitee, objective_to_drop, objective_to_give)
         IN Result(joinTeam(w1, invitee, w1.team[invitee]), TRUE)
    ELSE IF delta_if_stay >= 0 /\ delta_if_stay > delta_if_move
    THEN Result(w, FALSE)
    ELSE IF delta_if_move = delta_if_stay /\ delta_if_move > 0
    THEN LET w1 == PayCost(w, inviter, invitee, objective_to_drop, objective_to_give)
         IN Result(joinTeam(w1, invitee, w1.team[invitee]), TRUE)
    ELSE Result(w, FALSE)

\* a move that charges the asker before the asked player has agreed
move_PaidInAdvance(w, asker, asked, delta_if_move, delta_if_stay, objective_to_drop, objective_to_give) ==
    IF Truthy(objective_to_drop) /\ Truthy(objective_to_give)
    THEN Result(Raise(w, "Exception"), FALSE)
    ELSE LET w1 == PayCost(w, asker, asked, objective_to_drop, objective_to_give)
         IN IF \/ delta_if_stay > 0 /\ delta_if_stay > delta_if_move
               \/ delta_if_stay = delta_if_move /\ delta_if_stay > 0
            THEN Result(joinTeam(w1, asker, w1.team[asked]), TRUE)
            ELSE Result(w1, FALSE)

\* a move the asked player accepts when it loses nothing by it
move_AtNoLoss(w, asker, asked, delta_if_move, delta_if_stay, objective_to_drop, objective_to_give) ==
    IF Truthy(objective_to_drop) /\ Truthy(objective_to_give)
    THEN Result(Raise(w, "Exception"), FALSE)
    ELSE IF delta_if_stay >= 0 /\ delta_if_stay >= delta_if_move
    THEN LET w1 == PayCost(w, asker, asked, objective_to_drop, objective_to_give)
         IN Result(joinTeam(w1, asker, w1.team[asked]), TRUE)
    ELSE Result(w, FALSE)

move(w, asker, asked, delta_if_move, delta_if_stay, objective_to_drop, objective_to_give) ==
    IF Truthy(objective_to_drop) /\ Truthy(objective_to_give)
    THEN Result(Raise(w, "Exception"), FALSE)
    ELSE IF delta_if_stay > 0 /\ delta_if_stay > delta_if_move
    THEN LET w1 == PayCost(w, asker, asked, objective_to_drop, objective_to_give)
         IN Result(joinTeam(w1, asker, w1.team[asked]), TRUE)
    ELSE IF delta_if_move > 0 /\ delta_if_move > delta_if_stay
    THEN Result(w, FALSE)
    ELSE IF delta_if_stay = delta_if_move /\ delta_if_stay > 0
    THEN LET w1 == PayCost(w, asker, asked, objective_to_drop, objective_to_give)
         IN Result(joinTeam(w1, asker, w1.team[asked]), TRUE)
    ELSE Result(w, FALSE)

(***************************************************************************)
(* The negotiation protocols.  variation_N(w, a, b) is the set of the      *)
(* possible results of the call: one for every objective the selector may  *)
(* return and every outcome of random.choice.                              *)
(***************************************************************************)
Total(w, p, kw) == currentTotal(w, p, kw).total

\* sum over the members p of a list of players, other than the excluded ones,
\* of delta[p]
RECURSIVE SumOthers(_, _, _)
SumOthers(members, excluded, delta) ==
    IF members = <<>> THEN 0
    ELSE (IF Head(members) \in excluded THEN 0 ELSE delta[Head(members)])
         + SumOthers(Tail(members), excluded, delta)

\* the shared decision without its opening test of the initiator's deltas
SelfishDecision_NoOpeningTest(w, a, b, adm, ads, bdm, bds, drop_stay, drop_move, give_stay, give_move, coin) ==
    IF adm >= 0 /\ adm > ads THEN move(w, a, b, bdm, bds, drop_move, give_move)
    ELSE IF ads >= 0 /\ ads > adm THEN invite(w, a, b, bdm, bds, drop_stay, give_stay)
    ELSE IF ads = adm /\ adm > 0
    THEN IF bdm >= 0 /\ bdm > bds THEN invite(w, a, b, bdm, bds, drop_stay, give_stay)
         ELSE IF bds >= 0 /\ bds > bdm THEN move(w, a, b, bdm, bds, drop_move, give_move)
         ELSE IF bds = bdm /\ bdm > 0
         THEN IF coin = "move" THEN move(w, a, b, bdm, bds, drop_move, give_move)
              ELSE invite(w, a, b, bdm, bds, drop_stay, give_stay)
         ELSE Result(w, FALSE)
    ELSE Result(w, FALSE)

\* the shared decision of the self-interested variations 1 and 2 (the initiator pays)
SelfishDecision(w, a, b, adm, ads, bdm, bds, drop_stay, drop_move, give_stay, give_move, coin) ==
    IF ads <= 0 /\ adm <= 0 THEN Result(w, FALSE)
    ELSE IF adm >= 0 /\ adm > ads THEN move(w, a, b, bdm, bds, drop_move, give_move)
    ELSE IF ads >= 0 /\ ads > adm THEN invite(w, a, b, bdm, bds, drop_stay, give_stay)
    ELSE IF ads = adm /\ adm > 0
    THEN IF bdm >= 0 /\ bdm > bds THEN invite(w, a, b, bdm, bds, drop_stay, give_stay)
         ELSE IF bds >= 0 /\ bds > bdm THEN move(w, a, b, bdm, bds, drop_move, give_move)
         ELSE IF bds = bdm /\ bdm > 0
         THEN IF coin = "move" THEN move(w, a, b, bdm, bds, drop_move, give_move)
              ELSE invite(w, a, b, bdm, bds, drop_stay, give_stay)
         ELSE Result(w, FALSE)
    ELSE Result(w, FALSE)

\* the deltas of the other members of both teams, as variations 1-3 compute them
a_other_deltas(w, a, b) ==
    LET d == [p \in Players |->
                 Total(w, p, [Kw EXCEPT !.test_object = b, !.object_is_team = FALSE])
                 - Total(w, p, Kw)]
    IN SumOthers(w.teams[w.team[a]].players, {a}, d)

b_other_deltas(w, a, b) ==
    LET d == [p \in Players |->
                 Total(w, p, [Kw EXCEPT !.test_object = b, !.object_is_team = FALSE])
                 - Total(w, p, Kw)]
    IN SumOthers(w.teams[w.team[b]].players, {b}, d)

variation_1_with(w, a, b, a_best_if_stay, a_best_if_move, coin) ==
    LET team_a == w.team[a]
        team_b == w.team[b]
        a_total_if_move == Total(w, a, [Kw EXCEPT !.test_object = team_b,
                                                  !.objective_to_drop = a_best_if_move])
        a_total_if_stay == Total(w, a, [Kw EXCEPT !.test_object = b, !.object_is_team = FALSE,
                                                  !.objective_to_drop = a_best_if_stay])
        b_total_if_move == Total(w, b, [Kw EXCEPT !.test_object = team_a])
        b_total_if_stay == Total(w, b, [Kw EXCEPT !.test_object = a, !.object_is_team = FALSE])
        adm == a_total_if_move - Total(w, a, Kw)
        ads == a_total_if_stay - Total(w, a, Kw)
        bdm == b_total_if_move - Total(w, b, Kw)
        bds == b_total_if_stay - Total(w, b, Kw)
        community_delta_a_to_b == adm + bds + b_other_deltas(w, a, b)
        community_delta_b_to_a == ads + bdm + a_other_deltas(w, a, b)
        a_to_b == Result(dropObjective(joinTeam(w, a, team_b), a, a_best_if_move), TRUE)
        b_to_a == Result(dropObjective(joinTeam(w, b, team_a), a, a_best_if_stay), TRUE)
    IN IF args.community_motivation
       THEN IF community_delta_a_to_b > 0 /\ community_delta_a_to_b > community_delta_b_to_a
            THEN a_to_b
            ELSE IF community_delta_b_to_a > 0 /\ community_delta_b_to_a > community_delta_a_to_b
            THEN b_to_a
            ELSE IF community_delta_a_to_b > 0 /\ community_delta_a_to_b = community_delta_b_to_a
            THEN IF coin = "stay" THEN b_to_a ELSE a_to_b
            ELSE Result(w, FALSE)
       ELSE SelfishDecision(w, a, b, adm, ads, bdm, bds,
                            a_best_if_stay, a_best_if_move, None, None, coin)

variation_1(w, a, b) ==
    {variation_1_with(w, a, b, s, m, coin) :
        s \in best_given_objective(w, a, TeamResources(w, w.team[a]) \cup {resource[b]}, NoResource),
        m \in best_given_objective(w, a, TeamResources(w, w.team[b]) \cup {resource[a]}, NoResource),
        coin \in {"move", "stay"}}

variation_2_with(w, a, b, a_best_if_stay, a_best_if_move, coin) ==
    LET team_a == w.team[a]
        team_b == w.team[b]
        a_total_if_move == Total(w, a, [Kw EXCEPT !.test_object = team_b,
                                                  !.objective_to_drop = a_best_if_move])
        a_total_if_stay == Total(w, a, [Kw EXCEPT !.test_object = b, !.object_is_team = FALSE,
                                                  !.objective_to_drop = a_best_if_stay])
        b_total_if_move == Total(w, b, [Kw EXCEPT !.test_object = team_a,
                                                  !.given_objective = a_best_if_stay,
                                                  !.giver = a])
        b_total_if_stay == Total(w, b, [Kw EXCEPT !.test_object = a, !.object_is_team = FALSE,
                                                  !.given_objective = a_best_if_move,
                                                  !.giver = a])
        adm == a_total_if_move - Total(w, a, Kw)
        ads == a_total_if_stay - Total(w, a, Kw)
        bdm == b_total_if_move - Total(w, b, Kw)
        bds == b_total_if_stay - Total(w, b, Kw)
        community_delta_a_to_b == adm + bds + b_other_deltas(w, a, b)
        community_delta_b_to_a == ads + bdm + a_other_deltas(w, a, b)
        a_to_b == Result(joinTeam(giveObjective(w, a, a_best_if_move, b), a, team_b), TRUE)
        b_to_a == Result(joinTeam(giveObjective(w, a, a_best_if_stay, b), b, team_a), TRUE)
    IN IF args.community_motivation
       THEN IF community_delta_a_to_b > 0 /\ community_delta_a_to_b > community_delta_b_to_a
            THEN a_to_b
            ELSE IF community_delta_b_to_a > 0 /\ community_delta_b_to_a > community_delta_a_to_b
            THEN b_to_a
            ELSE IF community_delta_a_to_b > 0 /\ community_delta_a_to_b = community_delta_b_to_a
            THEN IF coin = "stay" THEN b_to_a ELSE a_to_b
            ELSE Result(w, FALSE)
       ELSE SelfishDecision(w, a, b, adm, ads, bdm, bds,
                            None, None, a_best_if_stay, a_best_if_move, coin)

variation_2(w, a, b) ==
    {variation_2_with(w, a, b, s, m, coin) :
        s \in best_given_objective(w, a, TeamResources(w, w.team[a]) \cup {resource[b]}, NoResource),
        m \in best_given_objective(w, a, TeamResources(w, w.team[b]) \cup {resource[a]}, NoResource),
        coin \in {"move", "stay"}}

\* lines 817-825: what each player gains by moving and by staying; each delta is
\* computed once, as the code does
deltas(w, a, b) ==
    LET team_a == w.team[a]
        team_b == w.team[b]
        a_total_if_move == Total(w, a, [Kw EXCEPT !.test_object = team_b])
        a_total_if_stay == Total(w, a, [Kw EXCEPT !.test_object = b, !.object_is_team = FALSE])
        b_total_if_move == Total(w, b, [Kw EXCEPT !.test_object = team_a])
        b_total_if_stay == Total(w, b, [Kw EXCEPT !.test_object = a, !.object_is_team = FALSE])
    IN [a_delta_if_move |-> a_total_if_move - Total(w, a, Kw),
        a_delta_if_stay |-> a_total_if_stay - Total(w, a, Kw),
        b_delta_if_move |-> b_total_if_move - Total(w, b, Kw),
        b_delta_if_stay |-> b_total_if_stay - Total(w, b, Kw)]

variation_3_with(w, a, b, d, coin) ==
    LET team_a == w.team[a]
        team_b == w.team[b]
        adm == d.a_delta_if_move
        ads == d.a_delta_if_stay
        bdm == d.b_delta_if_move
        bds == d.b_delta_if_stay
        community_delta_a_to_b == adm + bds + b_other_deltas(w, a, b)
        community_delta_b_to_a == ads + bdm + a_other_deltas(w, a, b)
        a_to_b == Result(joinTeam(w, a, team_b), TRUE)
        b_to_a == Result(joinTeam(w, b, team_a), TRUE)
    IN IF args.community_motivation
       THEN IF community_delta_a_to_b > 0 /\ community_delta_a_to_b > community_delta_b_to_a
            THEN a_to_b
            ELSE IF community_delta_b_to_a > 0 /\ community_delta_b_to_a > community_delta_a_to_b
            THEN b_to_a
            ELSE IF community_delta_a_to_b > 0 /\ community_delta_a_to_b = community_delta_b_to_a
            THEN IF coin = "stay" THEN b_to_a ELSE a_to_b
            ELSE Result(w, FALSE)
       ELSE IF ads <= 0 /\ adm <= 0 THEN Result(w, FALSE)
       ELSE IF adm >= 0 /\ adm > ads THEN move(w, a, b, bdm, bds, None, None)
       ELSE IF ads >= 0 /\ ads > adm THEN invite(w, a, b, bdm, bds, None, None)
       ELSE IF ads = adm /\ adm > 0
       THEN IF bdm >= 0 /\ bdm > bds THEN move(w, b, a, adm, ads, None, None)
            ELSE IF bds >= 0 /\ bds > bdm THEN invite(w, b, a, adm, ads, None, None)
            ELSE IF bds = bdm /\ bdm > 0
            THEN IF coin = "move" THEN move(w, b, a, adm, ads, None, None)
                 ELSE invite(w, b, a, adm, ads, None, None)
            ELSE Result(w, FALSE)
       ELSE Result(w, FALSE)

\* a variation 3 that charges what variation 1 charges: A drops an objective
variation_3_AtACost(w, a, b) == variation_1(w, a, b)

variation_3(w, a, b) ==
    {variation_3_with(w, a, b, d, coin) : d \in {deltas(w, a, b)}, coin \in {"move", "stay"}}

\* Team(index): a new, empty team
Team(index) == [index |-> index, players |-> <<>>]

\* a variation 4 in which a agreeing pair does not found a team: a joins b's
variation_4_JoinExisting(w, a, b) ==
    LET a_delta_if_new_team ==
            Total(w, a, [Kw EXCEPT !.test_object = b, !.object_is_team = FALSE,
                                   !.new_team = TRUE]) - Total(w, a, Kw)
        b_delta_if_new_team ==
            Total(w, b, [Kw EXCEPT !.test_object = a, !.object_is_team = FALSE,
                                   !.new_team = TRUE]) - Total(w, b, Kw)
    IN IF a_delta_if_new_team > 0 /\ b_delta_if_new_team > 0
       THEN {Result(joinTeam(w, a, w.team[b]), TRUE)}
       ELSE {Result(w, FALSE)}

\* a variation 4 in which the gain of player A is enough
variation_4_OneWilling(w, a, b) ==
    LET team_a == w.team[a]
        team_b == w.team[b]
        a_current == Total(w, a, Kw)
        b_current == Total(w, b, Kw)
        a_new_team == Total(w, a, [Kw EXCEPT !.test_object = b, !.object_is_team = FALSE,
                                             !.new_team = TRUE])
        b_new_team == Total(w, b, [Kw EXCEPT !.test_object = a, !.object_is_team = FALSE,
                                             !.new_team = TRUE])
        a_delta_if_new_team == a_new_team - a_current
        b_delta_if_new_team == b_new_team - b_current
        d == [p \in Players |-> Total(w, p, [Kw EXCEPT !.alone = TRUE]) - Total(w, p, Kw)]
        other_deltas == SumOthers(w.teams[team_a].players \o w.teams[team_b].players, {a, b}, d)
        community_delta_new_team == a_delta_if_new_team + b_delta_if_new_team + other_deltas
        a_first == a_delta_if_new_team > 0
        b_second == b_delta_if_new_team > 0 /\ a_delta_if_new_team > 0
        merge_occurred ==
            IF args.community_motivation THEN community_delta_new_team > 0
            ELSE IF a_first THEN TRUE ELSE b_second
        appended == [w EXCEPT !.teams = Append(@, Team(last_team_index(w) + 1))]
        newTeam == Len(appended.teams)
    IN IF merge_occurred
       THEN {Result(joinTeam(joinTeam(appended, a, newTeam), b, newTeam), TRUE)}
       ELSE {Result(w, FALSE)}

variation_4(w, a, b) ==
    LET team_a == w.team[a]
        team_b == w.team[b]
        a_current == Total(w, a, Kw)
        b_current == Total(w, b, Kw)
        a_new_team == Total(w, a, [Kw EXCEPT !.test_object = b, !.object_is_team = FALSE,
                                             !.new_team = TRUE])
        b_new_team == Total(w, b, [Kw EXCEPT !.test_object = a, !.object_is_team = FALSE,
                                             !.new_team = TRUE])
        a_delta_if_new_team == a_new_team - a_current
        b_delta_if_new_team == b_new_team - b_current
        d == [p \in Players |-> Total(w, p, [Kw EXCEPT !.alone = TRUE]) - Total(w, p, Kw)]
        other_deltas == SumOthers(w.teams[team_a].players \o w.teams[team_b].players, {a, b}, d)
        community_delta_new_team == a_delta_if_new_team + b_delta_if_new_team + other_deltas
        a_first == a_delta_if_new_team > 0 /\ b_delta_if_new_team > 0
        b_second == b_delta_if_new_team > 0 /\ a_delta_if_new_team > 0
        merge_occurred ==
            IF args.community_motivation THEN community_delta_new_team > 0
            ELSE IF a_first THEN TRUE ELSE b_second
        appended == [w EXCEPT !.teams = Append(@, Team(last_team_index(w) + 1))]
        newTeam == Len(appended.teams)
    IN IF merge_occurred
       THEN {Result(joinTeam(joinTeam(appended, a, newTeam), b, newTeam), TRUE)}
       ELSE {Result(w, FALSE)}

\* a variation 5 in which only player A hands its objective over
variation_5_with_OneWay(w, a, b, a_best_to_give, b_best_to_give) ==
    LET a_total_if_no_trade == currentTotal(w, a, Kw)
        a_total_with_trade ==
            currentTotal(w, a, [Kw EXCEPT !.objective_to_drop = a_best_to_give,
                                          !.given_objective = b_best_to_give, !.giver = b])
        b_total_if_no_trade == currentTotal(w, b, Kw)
        b_total_with_trade ==
            currentTotal(w, b, [Kw EXCEPT !.objective_to_drop = b_best_to_give,
                                          !.given_objective = a_best_to_give, !.giver = a])
        a_delta_if_trade == a_total_with_trade.total - a_total_if_no_trade.total
        b_delta_if_trade == b_total_with_trade.total - b_total_if_no_trade.total
        community_delta_if_trade == a_delta_if_trade + b_delta_if_trade
        trade == giveObjective(w, a, a_best_to_give, b)
    IN IF a_total_with_trade.raised # "none" THEN Result(Raise(w, a_total_with_trade.raised), FALSE)
       ELSE IF b_total_with_trade.raised # "none"
       THEN Result(Raise(w, b_total_with_trade.raised), FALSE)
       ELSE IF args.community_motivation
       THEN IF community_delta_if_trade > 0 THEN Result(trade, TRUE) ELSE Result(w, FALSE)
       ELSE IF a_delta_if_trade > 0 /\ b_delta_if_trade > 0 THEN Result(trade, TRUE)
       ELSE Result(w, FALSE)

\* a variation 5 in which the gain of one of the two players is enough
variation_5_with_EitherGains(w, a, b, a_best_to_give, b_best_to_give) ==
    LET a_total_if_no_trade == currentTotal(w, a, Kw)
        a_total_with_trade ==
            currentTotal(w, a, [Kw EXCEPT !.objective_to_drop = a_best_to_give,
                                          !.given_objective = b_best_to_give, !.giver = b])
        b_total_if_no_trade == currentTotal(w, b, Kw)
        b_total_with_trade ==
            currentTotal(w, b, [Kw EXCEPT !.objective_to_drop = b_best_to_give,
                                          !.given_objective = a_best_to_give, !.giver = a])
        a_delta_if_trade == a_total_with_trade.total - a_total_if_no_trade.total
        b_delta_if_trade == b_total_with_trade.total - b_total_if_no_trade.total
        community_delta_if_trade == a_delta_if_trade + b_delta_if_trade
        trade == giveObjective(giveObjective(w, a, a_best_to_give, b), b, b_best_to_give, a)
    IN IF a_total_with_trade.raised # "none" THEN Result(Raise(w, a_total_with_trade.raised), FALSE)
       ELSE IF b_total_with_trade.raised # "none"
       THEN Result(Raise(w, b_total_with_trade.raised), FALSE)
       ELSE IF args.community_motivation
       THEN IF community_delta_if_trade > 0 THEN Result(trade, TRUE) ELSE Result(w, FALSE)
       ELSE IF a_delta_if_trade > 0 \/ b_delta_if_trade > 0 THEN Result(trade, TRUE)
       ELSE Result(w, FALSE)

variation_5_with(w, a, b, a_best_to_give, b_best_to_give) ==
    LET a_total_if_no_trade == currentTotal(w, a, Kw)
        a_total_with_trade ==
            currentTotal(w, a, [Kw EXCEPT !.objective_to_drop = a_best_to_give,
                                          !.given_objective = b_best_to_give, !.giver = b])
        b_total_if_no_trade == currentTotal(w, b, Kw)
        b_total_with_trade ==
            currentTotal(w, b, [Kw EXCEPT !.objective_to_drop = b_best_to_give,
                                          !.given_objective = a_best_to_give, !.giver = a])
        a_delta_if_trade == a_total_with_trade.total - a_total_if_no_trade.total
        b_delta_if_trade == b_total_with_trade.total - b_total_if_no_trade.total
        community_delta_if_trade == a_delta_if_trade + b_delta_if_trade
        trade == giveObjective(giveObjective(w, a, a_best_to_give, b), b, b_best_to_give, a)
    IN IF a_total_with_trade.raised # "none" THEN Result(Raise(w, a_total_with_trade.raised), FALSE)
       ELSE IF b_total_with_trade.raised # "none"
       THEN Result(Raise(w, b_total_with_trade.raised), FALSE)
       ELSE IF args.community_motivation
       THEN IF community_delta_if_trade > 0 THEN Result(trade, TRUE) ELSE Result(w, FALSE)
       ELSE IF a_delta_if_trade > 0 /\ b_delta_if_trade > 0 THEN Result(trade, TRUE)
       ELSE Result(w, FALSE)

variation_5(w, a, b) ==
    {variation_5_with(w, a, b, ga, gb) :
        ga \in best_given_objective(w, a, {resource[a]}, resource[b]),
        gb \in best_given_objective(w, b, {resource[b]}, resource[a])}

\* self.variations[self.variation](a, b)
variations(v, w, a, b) ==
    CASE v = 1 -> variation_1(w, a, b)
      [] v = 2 -> variation_2(w, a, b)
      [] v = 3 -> variation_3(w, a, b)
      [] v = 4 -> variation_4(w, a, b)
      [] v = 5 -> variation_5(w, a, b)

(***************************************************************************)
(* CollaborationModel.__init__                                             *)
(***************************************************************************)
\* the resources of `for resource, quantity in sorted(pool.items()): for i in range(quantity)`
RECURSIVE ExpandPool(_, _)
ExpandPool(letters, pool) ==
    IF letters = <<>> THEN <<>>
    ELSE [i \in 1..pool[Head(letters)] |-> Head(letters)] \o ExpandPool(Tail(letters), pool)

\* slices that advance by one index, not by num_objs_per_player
Slice_ByOne(objs_index, count, num_objs_per_player) ==
    LET start == count
        stop == start + num_objs_per_player
    IN {objs_index[i] : i \in (start + 1)..stop}

\* objs_index[start:stop:1] for the count-th player (count from 0)
Slice(objs_index, count, num_objs_per_player) ==
    LET start == count * num_objs_per_player
        stop == start + num_objs_per_player
    IN {objs_index[i] : i \in (start + 1)..stop}

\* Player(name, resource, objective_indices, objectives_table).objectives
PlayerObjectives(objective_indices, objectives_table) ==
    [i \in objective_indices |-> objectives_table[i + 1]]

\* an attribute that is replaced under variation 3 only if no count of rounds
\* can reach it
ThresholdAttribute_IfInvalid(a) ==
    IF a.variation = 3 /\ a.faux_pareto_rounds_without_merges < 1 THEN 5
    ELSE a.faux_pareto_rounds_without_merges

\* the attribute __init__ leaves in self.faux_pareto_rounds_without_merges
ThresholdAttribute(a) ==
    IF a.variation = 3 THEN 5 ELSE a.faux_pareto_rounds_without_merges

(***************************************************************************)
(* The state before construction, and the construction steps.              *)
(***************************************************************************)
LoopInit ==
    [rounds_without_merges |-> 0, merges_this_round |-> 0, total_merges |-> 0,
     total_encounters |-> 0, before_total |-> 0, rounds |-> 0]

NoCall == [variation |-> 0, a |-> None, b |-> None, ret |-> FALSE]

\* no currentTotal call is to be made, and none has been made
\* no call of invite, move or best_given_objective: the arguments a test
\* passes to them besides the player itself
NoHelper ==
    [name |-> "none", pool |-> {}, other_resource |-> NoResource, other |-> None,
     delta_if_move |-> 0, delta_if_stay |-> 0,
     objective_to_drop |-> None, objective_to_give |-> None]

NoProbe == [self |-> None, kw |-> Kw, helper |-> NoHelper]
NoScore == [calls |-> 0, raised |-> "none", total |-> None]

\* inputs: a set of [args, random]
\* the state before __init__, for the inputs i and the test call p
InitProbing(inputs, probes) ==
    /\ \E i \in inputs : args = i.args /\ random = i.random
    /\ probe \in probes
    /\ faux_pareto_rounds_without_merges = None
    /\ resource_pool = [high |-> <<>>, low |-> <<>>, pool |-> <<>>]
    /\ objective_pool = [num_objs |-> 0, pool |-> <<>>, table |-> <<>>]
    /\ resource = <<>>
    /\ objectives = <<>>
    /\ team = <<>>
    /\ teams = <<>>
    /\ dropped_objectives = <<>>
    /\ traded_objectives = <<>>
    /\ dropped_indices = {}
    /\ pc = "new"
    /\ loop = LoopInit
    /\ pairs_of_players = {}
    /\ last = NoCall
    /\ scored = NoScore
    /\ raised = "none"

InitWith(inputs) == InitProbing(inputs, {NoProbe})

\* line 116: ResourcePool(self.num_resources, self.num_players, ratio)
NewResourcePool(a, rnd) ==
    ResourcePool(divide_high_low(a.num_resources, rnd.letters), a.num_players,
                 a.approximate_high_low_resource_ratio)

\* line 117: ObjectivePool(self.resource_pool, ...)
NewObjectivePool(a, rnd, rp) ==
    LET counts == ObjectivePoolCounts(rp, a.num_players, a.num_objs_per_player,
                                      a.approximate_high_low_objective_ratio)
    IN ObjectivePool(rp, a.num_players, a.num_objs_per_player,
                     a.approximate_high_low_objective_ratio, a.value_high, a.value_low,
                     DictItems(DOMAIN counts, rnd.items))

\* lines 136-194: the players and their singleton teams.  A dict keyed by
\* 0 .. P-1 iterates in key order, so team i holds player i.
NewCommunity(a, rnd, rp, op) ==
    LET P == a.num_players
        expanded == ExpandPool(SortedLetters(DOMAIN rp.pool), rp.pool)
        count(p) == (CHOOSE c \in 1..P : rnd.players_list[c] = p) - 1
    IN [resource |-> [p \in 0..(P - 1) |-> expanded[count(p) + 1]],
        objectives |-> [p \in 0..(P - 1) |->
                           PlayerObjectives(Slice(rnd.objs_index, count(p),
                                                  a.num_objs_per_player),
                                            op.table)],
        teams |-> [i \in 1..P |-> [index |-> i - 1, players |-> <<i - 1>>]],
        team |-> [p \in 0..(P - 1) |-> p + 1]]

BuildResourcePool ==
    /\ pc = "new"
    /\ resource_pool' = NewResourcePool(args, random)
    /\ pc' = "resources"
    /\ UNCHANGED <<inputVars, objective_pool, entityVars, loop, pairs_of_players, last, scored, raised>>

BuildObjectivePool ==
    /\ pc = "resources"
    /\ objective_pool' = NewObjectivePool(args, random, resource_pool)
    /\ pc' = "objectives"
    /\ UNCHANGED <<inputVars, resource_pool, entityVars, loop, pairs_of_players, last, scored, raised>>

\* lines 120-194: the attributes, the players and their teams
BuildPlayers ==
    /\ pc = "objectives"
    /\ LET c == NewCommunity(args, random, resource_pool, objective_pool)
       IN /\ resource' = c.resource
          /\ objectives' = c.objectives
          /\ teams' = c.teams
          /\ team' = c.team
    /\ faux_pareto_rounds_without_merges' = ThresholdAttribute(args)
    /\ dropped_objectives' = <<>>
    /\ traded_objectives' = <<>>
    /\ dropped_indices' = {}
    /\ pc' = "constructed"
    /\ UNCHANGED <<args, random, probe, poolVars, loop, pairs_of_players, last, scored, raised>>

\* the state __init__ leaves, for the inputs i
Constructed(inputs) ==
    \E i \in inputs :
        LET rp == NewResourcePool(i.args, i.random)
            op == NewObjectivePool(i.args, i.random, rp)
            c == NewCommunity(i.args, i.random, rp, op)
        IN /\ args = i.args
           /\ random = i.random
           /\ faux_pareto_rounds_without_merges = ThresholdAttribute(i.args)
           /\ resource_pool = rp
           /\ objective_pool = op
           /\ resource = c.resource
           /\ objectives = c.objectives
           /\ team = c.team
           /\ teams = c.teams
           /\ dropped_objectives = <<>>
           /\ traded_objectives = <<>>
           /\ dropped_indices = {}
           /\ pc = "constructed"
           /\ loop = LoopInit
           /\ pairs_of_players = {}
           /\ last = NoCall
           /\ probe = NoProbe
           /\ scored = NoScore
           /\ raised = "none"

(***************************************************************************)
(* A protocol call.                                                        *)
(***************************************************************************)
\* the state after a call that ended as r
Commit(r, v, a, b) ==
    /\ objectives' = r.w.objectives
    /\ team' = r.w.team
    /\ teams' = r.w.teams
    /\ dropped_objectives' = r.w.dropped_objectives
    /\ traded_objectives' = r.w.traded_objectives
    /\ dropped_indices' = r.w.dropped_indices
    /\ raised' = r.w.raised
    /\ last' = [variation |-> v, a |-> a, b |-> b, ret |-> r.ret /\ r.w.raised = "none"]
    /\ scored' = NoScore
    /\ UNCHANGED resource

CanCall(a, b) ==
    /\ raised = "none"
    /\ a # b
    /\ team[a] # team[b]
    /\ Len(traded_objectives) < MaxTraded
    /\ Len(teams) < MaxTeams

\* self.variations[self.variation](a, b), called on two players of different
\* teams of the constructed model (as test_run does, lines 196-206); results
\* is what variation v may return for them
Call(v, a, b, results) ==
    /\ pc = "constructed"
    /\ args.variation = v
    /\ CanCall(a, b)
    /\ \E r \in results :
          /\ Commit(r, v, a, b)
          /\ pc' = IF r.w.raised = "none" THEN "constructed" ELSE "raised"
    /\ UNCHANGED <<inputVars, poolVars, loop, pairs_of_players>>

CallVariation1 == \E a, b \in Players : Call(1, a, b, variation_1(World, a, b))
CallVariation2 == \E a, b \in Players : Call(2, a, b, variation_2(World, a, b))
CallVariation3 == \E a, b \in Players : Call(3, a, b, variation_3(World, a, b))
CallVariation4 == \E a, b \in Players : Call(4, a, b, variation_4(World, a, b))
CallVariation5 == \E a, b \in Players : Call(5, a, b, variation_5(World, a, b))

\* a test calls self.players[probe.self].currentTotal(**probe.kw) on the
\* constructed model, with a team or a player for test_object as object_is_team
\* says, and catches what it raises
Score ==
    /\ pc = "constructed"
    /\ raised = "none"
    /\ probe.helper.name = "currentTotal"
    /\ scored.calls < MaxScores
    /\ \/ probe.kw.test_object = None
       \/ probe.kw.object_is_team /\ probe.kw.test_object \in DOMAIN teams
       \/ ~probe.kw.object_is_team /\ probe.kw.test_object \in Players
    /\ LET r == currentTotal(World, probe.self, probe.kw)
       IN /\ objectives' = r.w.objectives
          /\ team' = r.w.team
          /\ teams' = r.w.teams
          /\ dropped_objectives' = r.w.dropped_objectives
          /\ traded_objectives' = r.w.traded_objectives
          /\ dropped_indices' = r.w.dropped_indices
          /\ scored' = [calls |-> scored.calls + 1, raised |-> r.raised,
                        total |-> IF r.raised = "none" THEN r.total ELSE None]
    /\ UNCHANGED <<inputVars, poolVars, resource, pc, loop, pairs_of_players, last, raised>>

\* a test calls self.players[probe.self].best_given_objective(pool,
\* other_resource) on the constructed model and keeps the index it returns
Select ==
    /\ pc = "constructed"
    /\ raised = "none"
    /\ probe.helper.name = "best_given_objective"
    /\ scored.calls < MaxScores
    /\ \E best \in best_given_objective(World, probe.self, probe.helper.pool,
                                         probe.helper.other_resource) :
          scored' = [calls |-> scored.calls + 1, raised |-> "none", total |-> best]
    /\ UNCHANGED <<inputVars, poolVars, entityVars, pc, loop, pairs_of_players, last,
                   raised>>

\* a test calls self.invite or self.move for the players probe.self and
\* probe.helper.other of the constructed model, with the deltas and the
\* objectives of the probe, and catches what it raises
Helper ==
    /\ pc = "constructed"
    /\ raised = "none"
    /\ probe.helper.name \in {"invite", "move"}
    /\ LET h == probe.helper
           r == IF h.name = "invite"
                THEN invite(World, probe.self, h.other, h.delta_if_move, h.delta_if_stay,
                            h.objective_to_drop, h.objective_to_give)
                ELSE move(World, probe.self, h.other, h.delta_if_move, h.delta_if_stay,
                          h.objective_to_drop, h.objective_to_give)
       IN /\ objectives' = r.w.objectives
          /\ team' = r.w.team
          /\ teams' = r.w.teams
          /\ dropped_objectives' = r.w.dropped_objectives
          /\ traded_objectives' = r.w.traded_objectives
          /\ dropped_indices' = r.w.dropped_indices
          /\ raised' = r.w.raised
          /\ pc' = IF r.w.raised = "none" THEN "constructed" ELSE "raised"
          /\ last' = [variation |-> 0, a |-> probe.self, b |-> h.other,
                      ret |-> r.ret /\ r.w.raised = "none"]
    /\ UNCHANGED <<inputVars, poolVars, resource, loop, pairs_of_players, scored>>

(***************************************************************************)
(* CollaborationModel.run                                                  *)
(***************************************************************************)
\* 0.0001 encounters, in the unit the model counts encounters in (1/10000)
EncounterUnit == 10000

Capped(n) == IF n > MaxEncounters THEN MaxEncounters ELSE n

\* pairs(lst) without the pair that closes the circle
pairs_Open(lst) == {<<lst[i], lst[i + 1]>> : i \in 1..(Len(lst) - 1)}

\* pairs(lst): (l0, l1), (l1, l2), ..., (l_last, l0)
pairs(lst) ==
    {<<lst[i], lst[(i % Len(lst)) + 1]>> : i \in 1..Len(lst)}

\* a run() that tests the count of stale rounds before its first round
RunStart_TestsFirst ==
    /\ pc = "constructed"
    /\ loop' = [LoopInit EXCEPT !.before_total = CommunityTotal(World),
                                !.total_encounters = IF args.variation = 0 THEN 1 ELSE 0]
    /\ pc' = IF args.variation = 0 \/ faux_pareto_rounds_without_merges = 0
             THEN "done" ELSE "shuffle"
    /\ UNCHANGED <<inputVars, poolVars, entityVars,
                   pairs_of_players, last, scored, raised>>

\* a run() that leaves total_encounters at 0 under variation 0
RunStart_ZeroEncounters ==
    /\ pc = "constructed"
    /\ loop' = [LoopInit EXCEPT !.before_total = CommunityTotal(World)]
    /\ pc' = IF args.variation = 0 THEN "done" ELSE "shuffle"
    /\ UNCHANGED <<inputVars, poolVars, entityVars,
                   pairs_of_players, last, scored, raised>>

\* lines 226-252: the locals, and variation 0
RunStart ==
    /\ pc = "constructed"
    /\ loop' = [LoopInit EXCEPT !.before_total = CommunityTotal(World),
                                !.total_encounters = IF args.variation = 0 THEN 1 ELSE 0]
    /\ pc' = IF args.variation = 0 THEN "done" ELSE "shuffle"
    /\ UNCHANGED <<inputVars, poolVars, entityVars,
                   pairs_of_players, last, scored, raised>>

\* lines 254-261: the head of a round in which shuffle() leaves players_list
Shuffled(players_list) ==
    /\ pc = "shuffle"
    /\ pairs_of_players' = pairs(players_list)
    /\ loop' = [loop EXCEPT !.total_merges = Capped(@ + loop.merges_this_round),
                            !.merges_this_round = 0]
    /\ pc' = "round"
    /\ UNCHANGED <<inputVars, poolVars, entityVars, last, scored, raised>>

RoundStart == \E players_list \in Orderings(Players) : Shuffled(players_list)

\* the next pair of the round met without the test of the two teams
Met_AnyPair(pair) ==
    /\ pc = "round"
    /\ pair \in pairs_of_players
    /\ LET a == pair[1]
           b == pair[2]
       IN    /\ pairs_of_players' = pairs_of_players \ {pair}
             /\ Len(traded_objectives) < MaxTraded
             /\ Len(teams) < MaxTeams
             /\ \E r \in variations(args.variation, World, a, b) :
                   /\ Commit(r, args.variation, a, b)
                   /\ IF r.w.raised # "none"
                      THEN pc' = "raised" /\ loop' = loop
                      ELSE /\ pc' = "round"
                           /\ loop' = [loop EXCEPT
                                 !.merges_this_round = IF r.ret THEN @ + 1 ELSE @,
                                 !.total_encounters =
                                     Capped(@ \div EncounterUnit + 1) * EncounterUnit]
    /\ UNCHANGED <<inputVars, poolVars>>

\* lines 261-270: the next pair of the round; shuffle(pairs_of_players) may have
\* put any of the pairs not yet met there
Met(pair) ==
    /\ pc = "round"
    /\ pair \in pairs_of_players
    /\ LET a == pair[1]
           b == pair[2]
       IN    /\ pairs_of_players' = pairs_of_players \ {pair}
             /\ IF team[a] # team[b]
                THEN /\ Len(traded_objectives) < MaxTraded
                     /\ Len(teams) < MaxTeams
                     /\ \E r \in variations(args.variation, World, a, b) :
                           /\ Commit(r, args.variation, a, b)
                           /\ IF r.w.raised # "none"
                              THEN pc' = "raised" /\ loop' = loop
                              ELSE /\ pc' = "round"
                                   /\ loop' = [loop EXCEPT
                                         !.merges_this_round = IF r.ret THEN @ + 1 ELSE @,
                                         !.total_encounters =
                                             Capped(@ \div EncounterUnit + 1) * EncounterUnit]
                ELSE UNCHANGED <<entityVars, last, scored, raised, loop, pc>>
    /\ UNCHANGED <<inputVars, poolVars>>

Encounter == \E pair \in pairs_of_players : Met(pair)

\* an end of round that leaves the count of stale rounds alone after a round
\* with a successful action
RoundEnd_NoReset ==
    /\ pc = "round"
    /\ pairs_of_players = {}
    /\ LET rwm == IF loop.merges_this_round # 0 THEN loop.rounds_without_merges
                  ELSE IF loop.rounds_without_merges < MaxStale
                  THEN loop.rounds_without_merges + 1
                  ELSE loop.rounds_without_merges
       IN /\ loop' = [loop EXCEPT !.rounds_without_merges = rwm,
                                  !.rounds = IF @ < MaxRounds THEN @ + 1 ELSE @]
          /\ pc' = IF rwm = faux_pareto_rounds_without_merges THEN "done" ELSE "shuffle"
    /\ UNCHANGED <<inputVars, poolVars, entityVars,
                   pairs_of_players, last, scored, raised>>

\* lines 272-277: the end of a round
RoundEnd ==
    /\ pc = "round"
    /\ pairs_of_players = {}
    /\ LET rwm == IF loop.merges_this_round # 0 THEN 0
                  ELSE IF loop.rounds_without_merges < MaxStale
                  THEN loop.rounds_without_merges + 1
                  ELSE loop.rounds_without_merges
       IN /\ loop' = [loop EXCEPT !.rounds_without_merges = rwm,
                                  !.rounds = IF @ < MaxRounds THEN @ + 1 ELSE @]
          /\ pc' = IF rwm = faux_pareto_rounds_without_merges THEN "done" ELSE "shuffle"
    /\ UNCHANGED <<inputVars, poolVars, entityVars,
                   pairs_of_players, last, scored, raised>>

(***************************************************************************)
(* The inputs the specifications draw from: the arguments of __init__ and  *)
(* the outcomes of its sample() and shuffle() calls.                       *)
(***************************************************************************)
ValueHigh == 20
ValueLow == 10

ArgsOf(P, R, O, kr, ko, v, t, m) ==
    [num_players |-> P, num_resources |-> R, num_objs_per_player |-> O,
     approximate_high_low_resource_ratio |-> kr, approximate_high_low_objective_ratio |-> ko,
     value_high |-> ValueHigh, value_low |-> ValueLow, variation |-> v,
     faux_pareto_rounds_without_merges |-> t, community_motivation |-> m]

Letters(R) == {ascii_uppercase[i] : i \in 1..R}

\* with two resources the two iteration orders of the objective names coincide
ItemKinds(R) == IF R <= 2 THEN {"hash"} ELSE {"hash", "sorted"}

Identity(n) == [i \in 1..n |-> i - 1]

RECURSIVE Ascending(_)
Ascending(S) ==
    IF S = {} THEN <<>>
    ELSE LET x == CHOOSE y \in S : \A z \in S : y <= z IN <<x>> \o Ascending(S \ {x})

\* every way of dealing the indices of S to n players, per objectives each: the
\* shuffled lists objs_index, up to the order inside a player's slice (which the
\* player's dict does not keep)
RECURSIVE Deals(_, _, _)
Deals(S, n, per) ==
    IF n = 0 THEN {<<>>}
    ELSE UNION {{Ascending(first) \o rest : rest \in Deals(S \ first, n - 1, per)} :
                   first \in {T \in SUBSET S : Cardinality(T) = per}}

\* every outcome of the random calls of __init__
AllRandom(a) ==
    [letters : Orderings(Letters(a.num_resources)),
     items : ItemKinds(a.num_resources),
     players_list : Orderings(0..(a.num_players - 1)),
     objs_index : Deals(0..(a.num_players * a.num_objs_per_player - 1),
                        a.num_players, a.num_objs_per_player)]

\* the outcomes that decide the pools alone (the players are not built)
PoolRandom(a) ==
    [letters : Orderings(Letters(a.num_resources)),
     items : ItemKinds(a.num_resources),
     players_list : {Identity(a.num_players)},
     objs_index : {Identity(a.num_players * a.num_objs_per_player)}]

InputsOf(argset) == UNION {[args : {a}, random : AllRandom(a)] : a \in argset}

\* the pools: every player count, both resource counts, every ratio
PoolArgs ==
    {ArgsOf(P, R, O, k, k, 0, 1, FALSE) :
        P \in 0..MaxPoolPlayers, R \in {2, 4}, O \in 1..MaxObjsPerPlayer, k \in 1..MaxRatio}

PoolInputs == UNION {[args : {a}, random : PoolRandom(a)] : a \in PoolArgs}

\* Four players with one resource each (A, B, C, D) and two objectives each.
\* Player 0 (A) wants B and C, player 1 (B) wants A and C, player 2 (C) wants A
\* and B, player 3 (D) wants nothing of the others.
FourPlayers(v, t, m, objs_index) ==
    [args |-> ArgsOf(4, 4, 2, 1, 1, v, t, m),
     random |-> [letters |-> <<"A", "B", "C", "D">>, items |-> "hash",
                 players_list |-> Identity(4), objs_index |-> objs_index]]

\* table (hash order): 0 a1, 1 a2, 2 b1, 3 b2, 4 c2, 5 c1, 6 d2, 7 d1
FourPlayerDeals ==
    {<<2, 5, 1, 4, 0, 3, 6, 7>>,    \* 0: b1 c1   1: a2 c2   2: a1 b2   3: d2 d1
     <<2, 4, 1, 5, 0, 3, 6, 7>>}    \* 0: b1 c2   1: a2 c1   2: a1 b2   3: d2 d1

\* the models the protocols are called on
CallInputs ==
    InputsOf({ArgsOf(2, 2, 2, kr, 1, v, 1, m) : kr \in {1, MaxRatio}, v \in 1..5, m \in BOOLEAN})
    \cup InputsOf({ArgsOf(3, 2, 1, 1, 1, v, 1, m) : v \in 1..5, m \in BOOLEAN})
    \cup {FourPlayers(v, 1, m, d) : v \in 1..5, m \in BOOLEAN, d \in FourPlayerDeals}

\* the models that are run: every variation, motivation and threshold on two
\* players, and variation 4 on the four players
RunInputs ==
    InputsOf({ArgsOf(2, 2, 2, 1, 1, v, t, m) : v \in 0..5, t \in 0..MaxThreshold, m \in BOOLEAN})
    \cup {FourPlayers(4, MaxThreshold, FALSE, d) : d \in FourPlayerDeals}

Next ==
    \/ BuildResourcePool
    \/ BuildObjectivePool
    \/ BuildPlayers
    \/ CallVariation1
    \/ CallVariation2
    \/ CallVariation3
    \/ CallVariation4
    \/ CallVariation5

Init == InitWith(CallInputs)

Spec == Init /\ [][Next]_vars

NextPool == BuildResourcePool \/ BuildObjectivePool

InitPool == InitWith(PoolInputs)

SpecPool == InitPool /\ [][NextPool]_vars

NextRun ==
    \/ BuildResourcePool
    \/ BuildObjectivePool
    \/ BuildPlayers
    \/ RunStart
    \/ RoundStart
    \/ Encounter
    \/ RoundEnd

InitRun == InitWith(RunInputs)

SpecRun == InitRun /\ [][NextRun]_vars

\* Three players of two resources (two players share one) with two objectives
\* each, under a variation that trades and joins teams (2) or founds them (4)
ScoreInputs ==
    {[args |-> ArgsOf(3, 2, 2, 1, 1, v, 1, FALSE),
      random |-> [letters |-> <<"A", "B">>, items |-> "hash",
                  players_list |-> Identity(3), objs_index |-> Identity(6)]] :
        v \in {2, 4}}

\* the currentTotal calls of the tests: every combination of the flags, with
\* and without a test object, an objective to drop (0, held or not)
\* and a given objective (0, held by the giver) with and without giver
Probes ==
    {[self |-> p,
      kw |-> [test_object |-> t, object_is_team |-> is_team, new_team |-> new, alone |-> al,
              objective_to_drop |-> d, given_objective |-> g, giver |-> gv],
      helper |-> [NoHelper EXCEPT !.name = "currentTotal"]] :
        p \in {0}, t \in {None, 2}, is_team \in BOOLEAN, new \in BOOLEAN,
        al \in BOOLEAN, d \in {None, 0, 1, 2}, g \in {None, 0, 4}, gv \in {None, 2}}

NextScore ==
    \/ BuildResourcePool
    \/ BuildObjectivePool
    \/ BuildPlayers
    \/ CallVariation2
    \/ CallVariation4
    \/ Score

InitScore == InitProbing(ScoreInputs, Probes)

SpecScore == InitScore /\ [][NextScore]_vars

\* Two players of two resources with two objectives each, in every order and
\* deal, under the variation that trades (5)
HelperInputs == InputsOf({ArgsOf(2, 2, 2, 1, 1, 5, 1, FALSE)})

\* the best_given_objective calls of the tests: each player, every pool of
\* the two resources, without and with a target resource
SelectProbes ==
    {[self |-> p, kw |-> Kw,
      helper |-> [NoHelper EXCEPT !.name = "best_given_objective", !.pool = pool,
                                  !.other_resource = target]] :
        p \in {0, 1}, pool \in SUBSET {"A", "B"}, target \in {NoResource, "A", "B"}}

\* the invite and move calls of the tests: player 0 with player 1, deltas
\* that grant and that deny, and every combination of no objective, objective
\* 0 and another objective to drop and to give
HelperProbes ==
    {[self |-> 0, kw |-> Kw,
      helper |-> [NoHelper EXCEPT !.name = name, !.other = 1,
                                  !.delta_if_move = dm, !.delta_if_stay = ds,
                                  !.objective_to_drop = d, !.objective_to_give = g]] :
        name \in {"invite", "move"}, dm \in {0, 1}, ds \in {0, 1},
        d \in {None, 0, 1, 2}, g \in {None, 0, 1, 2}}

NextHelper ==
    \/ BuildResourcePool
    \/ BuildObjectivePool
    \/ BuildPlayers
    \/ CallVariation5
    \/ Select
    \/ Helper

InitHelper == InitProbing(HelperInputs, SelectProbes \cup HelperProbes)

SpecHelper == InitHelper /\ [][NextHelper]_vars

\* Three players with the resources A, B and C of four, and three objectives
\* each, under variation 3, self-interested.  table (hash order): 0 a1, 1 a2,
\* 2 b1, 3 b2, 4 c2, 5 c1, 6 d2, 7 d1, 8 d1
\*   0 (A): a1 b1 d1   1 (B): a2 c1 d1   2 (C): b2 c2 d2
FairInputs ==
    {[args |-> ArgsOf(3, 4, 3, 1, 1, 3, 1, FALSE),
      random |-> [letters |-> <<"C", "D", "A", "B">>, items |-> "hash",
                  players_list |-> Identity(3),
                  objs_index |-> <<0, 2, 7, 1, 5, 8, 3, 4, 6>>]]}

InitFair == Constructed(FairInputs)

NextFair ==
    \/ RunStart
    \/ RoundStart
    \/ Encounter
    \/ RoundEnd

\* an encounter after which a player is on another team, and one after which
\* none is
Joined == Encounter /\ team' # team
Kept == Encounter /\ team' = team

\* the round in which shuffle(players_list) seats the players in the circle
\* that starts at player 0 and goes on as rest does
Circle(rest) == Shuffled(<<0>> \o rest)

\* run() never waits: it begins, meets the next pair of a round and ends a
\* round whenever it can; shuffle() seats the players in every circle again
\* and again; choice() takes each of its alternatives again and again
Fairness ==
    /\ WF_vars(RunStart)
    /\ WF_vars(Encounter)
    /\ WF_vars(RoundEnd)
    /\ \A rest \in Orderings(1..2) : SF_vars(Circle(rest))
    /\ SF_vars(Joined)
    /\ SF_vars(Kept)

SpecFair == InitFair /\ [][NextFair]_vars /\ Fairness

\* the runs of variation 5: two players with two objectives each and three
\* players with one, in both motivation modes
TradeInputs ==
    InputsOf({ArgsOf(2, 2, 2, 1, 1, 5, t, m) : t \in 1..MaxThreshold, m \in BOOLEAN})
    \cup InputsOf({ArgsOf(3, 2, 1, 1, 1, 5, 1, m) : m \in BOOLEAN})

InitTrade == Constructed(TradeInputs)

\* run() never waits: it begins, starts a round, meets the next pair of a
\* round and ends a round whenever it can
Progress ==
    /\ WF_vars(RunStart)
    /\ WF_vars(RoundStart)
    /\ WF_vars(Encounter)
    /\ WF_vars(RoundEnd)

SpecTrade == InitTrade /\ [][NextFair]_vars /\ Progress

(***************************************************************************)
(* Team membership and objective holdings.                                 *)
(***************************************************************************)
\* the places (team, position in its member list) where player p is listed
Listings(p) ==
    {tp \in UNION {{<<t, i>> : i \in DOMAIN teams[t].players} : t \in DOMAIN teams} :
        teams[tp[1]].players[tp[2]] = p}

HeldIndices(p) == DOMAIN objectives[p]

HeldCount ==
    LET n == [p \in Players |-> Cardinality(HeldIndices(p))]
    IN SumOver(n, Players)

\* C1: in every state after construction and after any sequence of calls of the
\* variations 1-5, in either motivation mode, every player is listed in the
\* member list of exactly one team, exactly once, and that team is the one the
\* player's team attribute refers to.
C1_OneTeamPerPlayer ==
    pc \in {"constructed", "raised"} =>
        \A p \in Players :
            /\ Cardinality(Listings(p)) = 1
            /\ \A tp \in Listings(p) : tp[1] = team[p]

\* a call made a player change teams: a team is left empty, another has grown
C1_Witness ==
    /\ pc = "constructed"
    /\ last.ret
    /\ \E t, u \in DOMAIN teams : teams[t].players = <<>> /\ Len(teams[u].players) >= 2

\* C2: every objective index of the table is held by exactly one player or has
\* been dropped, never held by two players, never both held and dropped; the
\* held objectives and the dropped ones add up to players x objectives per
\* player; and a call that trades without dropping leaves the number of held
\* objectives unchanged.
C2_Holdings ==
    pc \in {"constructed", "raised"} =>
        /\ \A i \in 0..(objective_pool.num_objs - 1) :
              \/ /\ Cardinality({p \in Players : i \in HeldIndices(p)}) = 1
                 /\ i \notin dropped_indices
              \/ /\ \A p \in Players : i \notin HeldIndices(p)
                 /\ i \in dropped_indices
        /\ Cardinality(dropped_indices) = Len(dropped_objectives)
        /\ HeldCount + Len(dropped_objectives) = args.num_players * args.num_objs_per_player

C2_TradeKeepsCount ==
    (Len(traded_objectives') > Len(traded_objectives)
        /\ dropped_objectives' = dropped_objectives) => HeldCount' = HeldCount

C2_ObjectiveConservation == [](C2_Holdings) /\ [][C2_TradeKeepsCount]_vars

\* objectives have been traded: a player holds other objectives than it was dealt
C2_Witness ==
    /\ pc = "constructed"
    /\ Len(traded_objectives) >= 2
    /\ \E p \in Players : HeldIndices(p) # Slice(random.objs_index,
                                                (CHOOSE c \in 1..args.num_players :
                                                     random.players_list[c] = p) - 1,
                                                args.num_objs_per_player)

\* C3: under variation 4, in either motivation mode, in every state reached
\* from the singleton teams by variation_4 calls on players of different
\* teams, every team has at most two members.
C3_AtMostTwoMembers ==
    args.variation = 4 => \A t \in DOMAIN teams : Len(teams[t].players) <= 2

\* a member of a pair has left it for a new pair: two teams were founded, one of
\* them is down to one member and another holds two
C3_Witness ==
    /\ args.variation = 4
    /\ last.ret
    /\ Len(teams) >= args.num_players + 2
    /\ \E t, u \in (args.num_players + 1)..Len(teams) :
          Len(teams[t].players) = 1 /\ Len(teams[u].players) = 2

\* the models run for their thresholds: below 0, 0, small, 5 and above 5
ThresholdInputs ==
    InputsOf({ArgsOf(2, 2, 2, 1, 1, v, t, FALSE) :
                 v \in {1, 3}, t \in {-1, 0, MaxThreshold, 5, MaxStale}})

InitThreshold == InitWith(ThresholdInputs)

SpecThreshold == InitThreshold /\ [][NextRun]_vars

(***************************************************************************)
(* The rounds of run().                                                    *)
(***************************************************************************)
\* the step that ends a round, and the step that meets a pair of different teams
RoundEnds == pc = "round" /\ pc' \in {"shuffle", "done"}

Calls ==
    /\ pc = "round"
    /\ \E pair \in pairs_of_players :
          pairs_of_players' = pairs_of_players \ {pair} /\ team[pair[1]] # team[pair[2]]

InitialAllocation ==
    LET c == NewCommunity(args, random, resource_pool, objective_pool)
    IN /\ objectives = c.objectives
       /\ team = c.team
       /\ teams = c.teams
       /\ dropped_objectives = <<>>
       /\ traded_objectives = <<>>

\* C4: for the variations 1-5, run() counts the rounds without a successful
\* action: a round in which no call returned true adds one to the count, a
\* round with a successful call sets it to zero; the loop is left at the end of
\* the first round after which the count equals the attribute
\* faux_pareto_rounds_without_merges, and nowhere else.
C4_StaleRounds ==
    [][args.variation \in 1..5 =>
          /\ (Calls /\ pc' = "round") =>
                loop'.merges_this_round =
                    loop.merges_this_round + (IF last'.ret THEN 1 ELSE 0)
          /\ RoundEnds =>
                /\ loop'.rounds_without_merges =
                      IF loop.merges_this_round # 0 THEN 0
                      ELSE IF loop.rounds_without_merges < MaxStale
                      THEN loop.rounds_without_merges + 1
                      ELSE MaxStale
                /\ (pc' = "done") <=>
                      (loop'.rounds_without_merges = faux_pareto_rounds_without_merges)
          /\ ~RoundEnds =>
                /\ loop'.rounds_without_merges = loop.rounds_without_merges
                /\ pc' = "done" => pc = "done"]_vars

\* a run has left the loop after a round with a successful action and then as
\* many stale rounds as the threshold asks for
C4_Witness ==
    /\ args.variation \in 1..5
    /\ pc = "done"
    /\ loop.total_merges >= 1
    /\ faux_pareto_rounds_without_merges >= 2
    /\ loop.rounds_without_merges = faux_pareto_rounds_without_merges

(***************************************************************************)
(* Convergence of run().                                                   *)
(***************************************************************************)
\* C5: with a variation 1-5, at least two players and a threshold of at least
\* 1, every run under a fair random pairing eventually leaves the round loop,
\* the last threshold rounds having had no successful action.
C5_EventuallyConverges ==
    <>(pc = "done" /\ loop.rounds_without_merges = faux_pareto_rounds_without_merges)

\* C6 as the specification has it: with a threshold of 0 and a variation 1-5,
\* run() leaves at once: no round begins, no protocol is called, and the teams
\* and the objectives stay as they were dealt.
C6_ConvergesImmediately ==
    (args.variation \in 1..5 /\ args.faux_pareto_rounds_without_merges = 0
        /\ pc \in {"shuffle", "round", "done", "raised"}) =>
        /\ pc = "done"
        /\ loop.rounds = 0
        /\ last = NoCall
        /\ InitialAllocation

\* C6, amended: with the attribute faux_pareto_rounds_without_merges at 0 and a
\* variation 1-5, run() begins a round before it tests the count; it leaves the
\* loop only at the end of a round in which a call returned true, and goes on
\* to another round after every round without one.
C6_LeavesAfterSuccessfulRound ==
    [][(args.variation \in 1..5 /\ faux_pareto_rounds_without_merges = 0) =>
          /\ (pc = "constructed" /\ pc' # "constructed") => pc' = "shuffle"
          /\ RoundEnds =>
                ((pc' = "done") <=> (loop.merges_this_round >= 1))
          /\ (pc # "done" /\ pc' = "done") =>
                (RoundEnds /\ last.variation = args.variation /\ loop'.rounds >= 1)]_vars

\* a run with threshold 0 has left the loop: a protocol was called and a player
\* has changed teams
C6_Witness ==
    /\ args.variation \in 1..5
    /\ faux_pareto_rounds_without_merges = 0
    /\ pc = "done"
    /\ loop.merges_this_round >= 1
    /\ ~InitialAllocation

(***************************************************************************)
(* Variation 0.                                                            *)
(***************************************************************************)
\* what run() writes in the columns encounters, switches and switch_ratio
\* (lines 296-298), encounters in units of 1/EncounterUnit
ReportedEncounters == loop.total_encounters
ReportedSwitches == loop.total_merges

Unchanged0 ==
    /\ loop.rounds = 0
    /\ last = NoCall
    /\ InitialAllocation
    /\ CommunityTotal(World) = loop.before_total
    /\ ReportedSwitches = 0

\* C7 as the specification has it: with variation 0 run() performs no round and
\* calls no protocol, leaves the teams, the objectives and the dropped and
\* traded lists as they were, has the same community total after as before,
\* and reports 0 switches and 0 encounters.
C7_ReportsZeroEncounters ==
    (args.variation = 0 /\ pc = "done") => (Unchanged0 /\ ReportedEncounters = 0)

\* C7, amended: with variation 0 run() never begins a round and calls no
\* protocol, leaves the teams, the objectives and the dropped and traded lists
\* as they were, has the same community total after as before, and reports 0
\* switches and 0.0001 encounters, the denominator of a switch ratio of 0.
C7_ReportsSentinelEncounters ==
    args.variation = 0 =>
        /\ pc \notin {"shuffle", "round", "raised"}
        /\ pc = "done" =>
              /\ Unchanged0
              /\ ReportedEncounters = 1
              /\ (ReportedSwitches * EncounterUnit) \div ReportedEncounters = 0

\* a run of variation 0 has ended
C7_Witness ==
    /\ args.variation = 0
    /\ pc = "done"
    /\ \E p \in Players : objectives[p] # <<>>

(***************************************************************************)
(* The pools.                                                              *)
(***************************************************************************)
PoolSum(pool) == SumOver(pool, DOMAIN pool)

\* C8: for every even number R >= 2 of resource categories, every number P >= 0
\* of players, every ratio k >= 1 and every division into high and low, the
\* quantities of ResourcePool.pool add up to exactly P, and every category
\* that has a quantity is one of the R letters.
C8_ResourcePoolSum ==
    pc \in {"resources", "objectives"} =>
        /\ PoolSum(resource_pool.pool) = args.num_players
        /\ DOMAIN resource_pool.pool \subseteq Letters(args.num_resources)
        /\ \A c \in DOMAIN resource_pool.pool : resource_pool.pool[c] >= 1

\* the pool of 16 players over 4 categories at ratio 3 has been built
C8_Witness ==
    /\ pc = "resources"
    /\ args.num_players = MaxPoolPlayers
    /\ args.num_resources = 4
    /\ args.approximate_high_low_resource_ratio = MaxRatio
    /\ DOMAIN resource_pool.pool = Letters(4)

\* C9: for every objective pool, the quantities of ObjectivePool.pool add up to
\* exactly players x objectives per player, the table has exactly that many
\* rows, as many of each category as the pool says, and a row is worth
\* value_high if and only if its category ends in 1, value_low otherwise,
\* whether the category is prevalent or rare.
C9_ObjectivePool ==
    pc = "objectives" =>
        LET n == args.num_players * args.num_objs_per_player
            table == objective_pool.table
        IN /\ PoolSum(objective_pool.pool) = n
           /\ objective_pool.num_objs = n
           /\ Len(table) = n
           /\ \A c \in DOMAIN objective_pool.pool :
                 Cardinality({i \in 1..n : table[i][1] = c}) = objective_pool.pool[c]
           /\ \A i \in 1..n :
                 /\ table[i][1] \in DOMAIN objective_pool.pool
                 /\ (table[i][2] = args.value_high) <=> (table[i][1][2] = "1")
                 /\ (table[i][2] = args.value_low) <=> (table[i][1][2] # "1")

\* a table holds a prevalent category of low value and a rare one of high value
C9_Witness ==
    /\ pc = "objectives"
    /\ args.num_resources = 4
    /\ args.approximate_high_low_objective_ratio = MaxRatio
    /\ \E i, j \in 1..Len(objective_pool.table) :
          /\ objective_pool.table[i][1] \in Range(ObjectiveLists(resource_pool).high)
          /\ objective_pool.table[i][2] = args.value_low
          /\ objective_pool.table[j][1] \in Range(ObjectiveLists(resource_pool).low)
          /\ objective_pool.table[j][2] = args.value_high

\* the item at place i (from 1) of one cycle: every low category once, then the
\* high categories in turn until each has come k times
CycleAt(low, high, i) ==
    IF i <= Len(low) THEN low[i] ELSE high[((i - Len(low) - 1) % Len(high)) + 1]

\* how often c is among the first n items of the cycles
Occurrences(low, high, k, n, c) ==
    LET length == Len(low) + k * Len(high)
    IN Cardinality({i \in 1..n : CycleAt(low, high, ((i - 1) % length) + 1) = c})

\* the count a Counter gives for c: 0 for a category it has not seen
CountOf(pool, c) == IF c \in DOMAIN pool THEN pool[c] ELSE 0

CountsAsSampled(pool, low, high, k, n) ==
    /\ \A c \in Range(low) \cup Range(high) :
          CountOf(pool, c) = Occurrences(low, high, k, n, c)
    /\ DOMAIN pool \subseteq Range(low) \cup Range(high)
    /\ (n % (Len(low) + k * Len(high)) = 0) =>
          \A h \in Range(high), l \in Range(low) :
              CountOf(pool, h) = k * CountOf(pool, l)

\* C10: the count of each category is the number of times the category occurs
\* among the first N items of the endless cycle "every low category once, then
\* every high category k times"; when N is a multiple of the length of the
\* cycle every high count is k times every low count; 4 categories, 16
\* players, ratio 3 give 6 to each high resource and 2 to each low one, and 80
\* objectives at ratio 3 give 15 to each prevalent category and 5 to each rare
\* one.
C10_SamplerCounts ==
    /\ pc \in {"resources", "objectives"} =>
          /\ CountsAsSampled(resource_pool.pool, resource_pool.low, resource_pool.high,
                             args.approximate_high_low_resource_ratio, args.num_players)
          /\ (args.num_resources = 4 /\ args.num_players = 16
                 /\ args.approximate_high_low_resource_ratio = 3) =>
                /\ \A h \in Range(resource_pool.high) : resource_pool.pool[h] = 6
                /\ \A l \in Range(resource_pool.low) : resource_pool.pool[l] = 2
    /\ pc = "objectives" =>
          /\ CountsAsSampled(objective_pool.pool, ObjectiveLists(resource_pool).low,
                             ObjectiveLists(resource_pool).high,
                             args.approximate_high_low_objective_ratio,
                             args.num_players * args.num_objs_per_player)
          /\ (args.num_resources = 4 /\ args.num_players * args.num_objs_per_player = 80
                 /\ args.approximate_high_low_objective_ratio = 3) =>
                /\ \A h \in Range(ObjectiveLists(resource_pool).high) :
                      objective_pool.pool[h] = 15
                /\ \A l \in Range(ObjectiveLists(resource_pool).low) :
                      objective_pool.pool[l] = 5

\* the documented pools: 16 players with 5 objectives each, 4 categories, ratio 3
C10_Witness ==
    /\ pc = "objectives"
    /\ args.num_resources = 4
    /\ args.num_players = 16
    /\ args.num_objs_per_player = 5
    /\ args.approximate_high_low_resource_ratio = 3
    /\ \E h \in DOMAIN resource_pool.pool : resource_pool.pool[h] = 6
    /\ \E c \in DOMAIN objective_pool.pool : objective_pool.pool[c] = 15

(***************************************************************************)
(* The scoring function.                                                   *)
(***************************************************************************)
\* a step in which the test calls currentTotal
Scores == scored'.calls = scored.calls + 1

\* C11: Player.currentTotal has no side effects, whatever its arguments, drop
\* and give modifiers included: the objectives of every player (the caller and
\* the giver among them), every team's member list and every player's team are
\* after the call what they were before it, and so are the dropped and traded
\* lists; a second call with the same arguments, nothing having changed in
\* between, returns what the first returned.
C11_NoSideEffects ==
    [][Scores =>
          /\ objectives' = objectives
          /\ teams' = teams
          /\ team' = team
          /\ dropped_objectives' = dropped_objectives
          /\ traded_objectives' = traded_objectives
          /\ scored.calls >= 1 =>
                (scored'.total = scored.total /\ scored'.raised = scored.raised)]_vars

\* a call that drops one held objective and is given another has returned a
\* total twice, on a team of several members
C11_Witness ==
    /\ scored.calls = 2
    /\ scored.raised = "none"
    /\ scored.total > 0
    /\ probe.kw.objective_to_drop \in DOMAIN objectives[probe.self]
    /\ Truthy(probe.kw.objective_to_drop)
    /\ Truthy(probe.kw.given_objective)
    /\ probe.kw.giver # None
    /\ Len(teams[team[probe.self]].players) >= 2

\* the members of the team of player p, by the players' own team references
TeamMates(p) == {q \in Players : team[q] = team[p]}

\* the resource set of the context a call names
ContextSet(self, kw) ==
    IF kw.alone THEN {resource[self]}
    ELSE IF kw.test_object = None THEN {resource[q] : q \in TeamMates(self)}
    ELSE IF kw.object_is_team
    THEN {resource[q] : q \in Range(teams[kw.test_object].players)} \cup {resource[self]}
    ELSE IF kw.new_team THEN {resource[self], resource[kw.test_object]}
    ELSE {resource[q] : q \in TeamMates(self)} \cup {resource[kw.test_object]}

\* the value of an objective in a context: its value if its category letter,
\* upper-cased, is one of the context's resources, and nothing otherwise
ValueIn(objective, context) ==
    IF upper(objective[1][1]) \in context THEN objective[2] ELSE 0

\* the values in a context of the objectives player p holds, summed
HeldValue(p, context) ==
    SumOver([i \in DOMAIN objectives[p] |-> ValueIn(objectives[p][i], context)],
            DOMAIN objectives[p])

\* C12: a call of currentTotal that drops nothing returns the sum of the values
\* of the caller's objectives whose category letter, upper-cased, is in the
\* resource set of the context (own team; own resource when alone; a team's
\* resources plus one's own; own team's plus a player's; the two players' own
\* for a new team), each objective counted once, so 0 when none matches; with
\* a given objective it returns that sum plus the value of the given objective
\* if that one matches.
C12_ScoreOfContext ==
    [][(Scores /\ scored'.raised = "none" /\ probe.kw.objective_to_drop = None) =>
          LET context == ContextSet(probe.self, probe.kw)
              given == probe.kw.given_objective
              extra == IF given = None THEN 0
                       ELSE ValueIn(objectives[probe.kw.giver][given], context)
          IN scored'.total = HeldValue(probe.self, context) + extra]_vars

\* a player on a two-member team has been scored with a third player whose
\* resource the team already has, and with an objective given by that player
\* which that resource fulfils: it counted once
C12_Witness ==
    /\ scored.calls >= 1
    /\ scored.raised = "none"
    /\ probe.kw.objective_to_drop = None
    /\ ~probe.kw.alone /\ ~probe.kw.object_is_team /\ ~probe.kw.new_team
    /\ probe.kw.test_object # None
    /\ Cardinality(TeamMates(probe.self)) = 2
    /\ resource[probe.kw.test_object] \in {resource[q] : q \in TeamMates(probe.self)}
    /\ probe.kw.giver # None
    /\ probe.kw.given_objective \in DOMAIN objectives[probe.kw.giver]
    /\ upper(objectives[probe.kw.giver][probe.kw.given_objective][1][1])
           = resource[probe.kw.test_object]
    /\ scored.total = HeldValue(probe.self, ContextSet(probe.self, probe.kw))
                         + objectives[probe.kw.giver][probe.kw.given_objective][2]

\* the argument combinations the three checks of currentTotal reject
InvalidArguments(kw) ==
    \/ kw.new_team /\ kw.object_is_team
    \/ kw.new_team /\ kw.test_object = None
    \/ kw.given_objective # None /\ kw.giver = None

\* C13: currentTotal raises its argument error, returns no total and leaves
\* every holding, team and list as it was, when new_team comes with
\* object_is_team or without a test object, and when a given objective,
\* whatever its index, comes without a giver.
C13_InvalidArguments ==
    [][(Scores /\ InvalidArguments(probe.kw)) =>
          /\ scored'.raised = "Exception"
          /\ scored'.total = None
          /\ objectives' = objectives
          /\ teams' = teams
          /\ team' = team
          /\ dropped_objectives' = dropped_objectives
          /\ traded_objectives' = traded_objectives]_vars

\* a call given objective 0 without a giver, and otherwise well-formed, raised
C13_Witness ==
    /\ scored.calls >= 1
    /\ scored.raised = "Exception"
    /\ probe.kw.given_objective = 0
    /\ probe.kw.giver = None
    /\ ~probe.kw.new_team

(***************************************************************************)
(* The cost of merging.                                                    *)
(***************************************************************************)
\* a call of variation v on the constructed model returns true
ReturnsTrue(v) ==
    /\ pc = "constructed"
    /\ pc' = "constructed"
    /\ last'.variation = v
    /\ last'.ret

\* the objectives that player p holds after the step and did not hold before it
Received(p) == DOMAIN objectives'[p] \ DOMAIN objectives[p]

\* the objectives that player p held before the step and does not hold after it
Lost(p) == DOMAIN objectives[p] \ DOMAIN objectives'[p]

\* C14: a call of variation 1 that returns true removes exactly one objective
\* (one more dropped objective, one less held), and a call of variation 2
\* that returns true moves exactly one objective from one of the two players
\* to the other (one more traded objective, as many held as before), in
\* both motivation modes and whichever index the selector picked.
C14_CostOfMerging ==
    [][/\ ReturnsTrue(1) =>
             /\ Len(dropped_objectives') = Len(dropped_objectives) + 1
             /\ HeldCount' = HeldCount - 1
       /\ ReturnsTrue(2) =>
             /\ Len(traded_objectives') = Len(traded_objectives) + 1
             /\ HeldCount' = HeldCount
             /\ \E i \in DOMAIN objectives[last'.a] :
                   /\ Lost(last'.a) = {i}
                   /\ Received(last'.b) = {i}
                   /\ \A p \in Players \ {last'.a} : Lost(p) = {}
                   /\ \A p \in Players \ {last'.b} : Received(p) = {}]_vars

(***************************************************************************)
(* Trading without teams (variation 5).                                    *)
(***************************************************************************)
\* C15: whatever calls of variation 5 have been made, in either mode, every
\* player is on the team it was constructed on, the team lists are those of
\* construction, and every player holds as many objectives as it was dealt:
\* a trade takes one objective from each of the two players and gives each
\* of them one.
C15_TradingKeepsTeamsAndCounts ==
    (pc \in {"constructed", "raised"} /\ args.variation = 5) =>
        LET c == NewCommunity(args, random, resource_pool, objective_pool)
        IN /\ team = c.team
           /\ teams = c.teams
           /\ \A p \in Players :
                 Cardinality(HeldIndices(p)) = args.num_objs_per_player

\* two players have swapped objectives under variation 5
C15_Witness ==
    /\ pc = "constructed"
    /\ args.variation = 5
    /\ last.ret
    /\ Len(traded_objectives) >= 2
    /\ \E p \in Players :
          HeldIndices(p) # DOMAIN NewCommunity(args, random, resource_pool,
                                               objective_pool).objectives[p]

\* the score of player p: the values of its objectives that the resources of
\* its team fulfil
Score_(p) == HeldValue(p, {resource[q] : q \in TeamMates(p)})

\* a call of variation 5 on the constructed model returns
Returns5 ==
    /\ pc = "constructed"
    /\ pc' = "constructed"
    /\ last'.variation = 5

\* C16: variation 5 swaps the two offered objectives only when, for
\* self-interested players, each of the two scores strictly more after the
\* trade than before it, and, with community motivation, the two changes of
\* score add up to more than 0; a call that returns false changes no holding.
C16_TradeOnlyIfBetter ==
    [][\A a, b \in Players : (Returns5 /\ last'.a = a /\ last'.b = b) =>
          LET a_delta == Score_(a)' - Score_(a)
              b_delta == Score_(b)' - Score_(b)
          IN IF last'.ret
             THEN /\ \E i \in DOMAIN objectives[a], j \in DOMAIN objectives[b] :
                        /\ Lost(a) = {i} /\ Received(b) = {i}
                        /\ Lost(b) = {j} /\ Received(a) = {j}
                  /\ IF args.community_motivation THEN a_delta + b_delta > 0
                     ELSE a_delta > 0 /\ b_delta > 0
             ELSE objectives' = objectives]_vars

\* two self-interested players have traded and both score more than they
\* were dealt
C16_Witness ==
    /\ pc = "constructed"
    /\ args.variation = 5
    /\ ~args.community_motivation
    /\ last.ret
    /\ Len(traded_objectives) = 2
    /\ LET c == NewCommunity(args, random, resource_pool, objective_pool)
           dealt(p) == SumOver([i \in DOMAIN c.objectives[p] |->
                                   ValueIn(c.objectives[p][i], {resource[p]})],
                               DOMAIN c.objectives[p])
       IN Score_(last.a) > dealt(last.a) /\ Score_(last.b) > dealt(last.b)

(***************************************************************************)
(* Merging at no cost (variations 3 and 4).                                *)
(***************************************************************************)
\* C17: whatever calls of variation 3 or of variation 4 have been made, in
\* either mode, every player holds the objectives it was dealt at
\* construction, and no objective has been dropped or traded.
C17_MergingIsFree ==
    (pc \in {"constructed", "raised"} /\ args.variation \in {3, 4}) =>
        /\ objectives = NewCommunity(args, random, resource_pool, objective_pool).objectives
        /\ dropped_objectives = <<>>
        /\ traded_objectives = <<>>
        /\ dropped_indices = {}

\* a call of variation 3 has put two players on one team
C17_Witness ==
    /\ pc = "constructed"
    /\ args.variation = 3
    /\ last.ret
    /\ team[last.a] = team[last.b]

\* what player p would gain on a new team with player q: its score with the
\* two players' own resources only, less its present score
NewTeamDelta(p, q) == HeldValue(p, {resource[p], resource[q]}) - Score_(p)

\* C18: a call of variation 4 on self-interested players a and b founds a
\* team if and only if each of the two would gain on a team of the two alone;
\* the new team is then one more entry of the team list, its members are a and
\* b and nobody else, both refer to it, and neither is listed on its former
\* team; otherwise the call returns false and no team, membership or
\* holding changes.
C18_NewTeamIffBothGain ==
    [][\A a, b \in Players :
          (/\ pc = "constructed" /\ pc' = "constructed"
           /\ last'.variation = 4 /\ last'.a = a /\ last'.b = b
           /\ ~args.community_motivation) =>
             IF NewTeamDelta(a, b) > 0 /\ NewTeamDelta(b, a) > 0
             THEN /\ last'.ret
                  /\ Len(teams') = Len(teams) + 1
                  /\ Range(teams'[Len(teams')].players) = {a, b}
                  /\ Len(teams'[Len(teams')].players) = 2
                  /\ team'[a] = Len(teams') /\ team'[b] = Len(teams')
                  /\ a \notin Range(teams'[team[a]].players)
                  /\ b \notin Range(teams'[team[b]].players)
                  /\ \A p \in Players \ {a, b} : team'[p] = team[p]
             ELSE /\ ~last'.ret
                  /\ teams' = teams
                  /\ team' = team
                  /\ objectives' = objectives]_vars

\* two self-interested players, one of them from a team of two, have founded
\* a team and left the third player behind
C18_Witness ==
    /\ pc = "constructed"
    /\ args.variation = 4
    /\ ~args.community_motivation
    /\ last.ret
    /\ Len(teams) = args.num_players + 2
    /\ Range(teams[Len(teams)].players) = {last.a, last.b}
    /\ \E t \in DOMAIN teams : Len(teams[t].players) = 1 /\ t > args.num_players

(***************************************************************************)
(* The constructed community.                                              *)
(***************************************************************************)
\* C19: when the constructor returns, each of the P players has a resource
\* of the pool and holds exactly O objectives, the entries of the table at
\* its indices; no index is held by two players and every index of the table
\* is held; as many players have resource r as the pool has of r; and there
\* are P teams, of indices 0..P-1, team i having player i as only member and
\* player i referring to it.
C19_Construction ==
    (pc = "constructed" /\ last = NoCall /\ scored = NoScore) =>
        LET P == args.num_players
            O == args.num_objs_per_player
        IN /\ Players = 0..(P - 1)
           /\ \A p \in Players :
                 /\ resource[p] \in DOMAIN resource_pool.pool
                 /\ Cardinality(HeldIndices(p)) = O
                 /\ \A i \in HeldIndices(p) : objectives[p][i] = objective_pool.table[i + 1]
           /\ \A p, q \in Players : p # q => HeldIndices(p) \cap HeldIndices(q) = {}
           /\ UNION {HeldIndices(p) : p \in Players} = 0..(P * O - 1)
           /\ Len(objective_pool.table) = P * O
           /\ \A r \in DOMAIN resource_pool.pool :
                 Cardinality({p \in Players : resource[p] = r}) = resource_pool.pool[r]
           /\ Len(teams) = P
           /\ \A i \in 1..P : teams[i].index = i - 1 /\ teams[i].players = <<i - 1>>
           /\ \A p \in Players : team[p] = p + 1
           /\ dropped_objectives = <<>> /\ traded_objectives = <<>>

\* three players have been constructed in a shuffled order, two of them with
\* the same resource
C19_Witness ==
    /\ pc = "constructed"
    /\ last = NoCall
    /\ args.num_players = 3
    /\ random.players_list # Identity(3)
    /\ \E r \in DOMAIN resource_pool.pool : resource_pool.pool[r] = 2
    /\ \E p, q \in Players : p # q /\ resource[p] = resource[q]

(***************************************************************************)
(* The team list.                                                          *)
(***************************************************************************)
TeamIndices == {teams[i].index : i \in DOMAIN teams}

\* the indices of the entries of the team list are pairwise distinct
DistinctTeamIndices == Cardinality(TeamIndices) = Len(teams)

\* a call keeps every entry of the team list in its place, its index with it,
\* members or not; adds at most one entry, and only under variation 4; and
\* gives an added entry the greatest index so far plus one
TeamListGrows ==
    pc = "constructed" =>
        /\ Len(teams') >= Len(teams)
        /\ \A i \in DOMAIN teams : teams'[i].index = teams[i].index
        /\ args.variation # 4 => Len(teams') = Len(teams)
        /\ Len(teams') > Len(teams) =>
              /\ Len(teams') = Len(teams) + 1
              /\ \A i \in TeamIndices : teams'[Len(teams')].index >= i + 1
              /\ teams'[Len(teams')].index - 1 \in TeamIndices

\* C20: in every reachable state no two teams have the same index; a team
\* founded by variation 4 gets the greatest existing index plus one; no entry
\* of the team list is ever removed, emptied teams included, so the list
\* never shrinks, and under variations 1, 2, 3 and 5 its length is constant.
C20_TeamIndices == [](DistinctTeamIndices) /\ [][TeamListGrows]_vars

\* variation 4 has founded teams: the list has grown by two entries, the
\* newest has the greatest index, and an emptied team is still listed
C20_Witness ==
    /\ pc = "constructed"
    /\ args.variation = 4
    /\ Len(teams) >= args.num_players + 2
    /\ teams[Len(teams)].index = Len(teams) - 1
    /\ \E t \in DOMAIN teams : teams[t].players = <<>>

(***************************************************************************)
(* The two modifiers of currentTotal together.                             *)
(***************************************************************************)
\* C30: a call of currentTotal that names an objective the caller holds as
\* objective_to_drop and an objective the giver holds as given_objective
\* returns, whatever the two indices, the score in the context of the call
\* of the caller's objectives without the first and with the second.
C30_SimultaneousTrade ==
    [][(/\ Scores
        /\ ~InvalidArguments(probe.kw)
        /\ probe.kw.giver # None
        /\ probe.kw.objective_to_drop \in DOMAIN objectives[probe.self]
        /\ probe.kw.given_objective \in DOMAIN objectives[probe.kw.giver]) =>
          LET context == ContextSet(probe.self, probe.kw)
              dropped == objectives[probe.self][probe.kw.objective_to_drop]
              given == objectives[probe.kw.giver][probe.kw.given_objective]
          IN /\ scored'.raised = "none"
             /\ scored'.total = HeldValue(probe.self, context) - ValueIn(dropped, context)
                                   + ValueIn(given, context)]_vars

(***************************************************************************)
(* The choice of the objective to drop or to give.                         *)
(***************************************************************************)
\* a test's call of best_given_objective returns
Selects == Scores /\ probe.helper.name = "best_given_objective"

\* the objectives player p holds whose category the pool fulfils (or not) and
\* whose value is the high one (or the low one)
ClassOf(p, pool, matching, high) ==
    {i \in DOMAIN objectives[p] :
        /\ (upper(objectives[p][i][1][1]) \in pool) = matching
        /\ (objectives[p][i][2] = args.value_high) = high}

\* the classes in the order of preference: unfulfilled low, unfulfilled high,
\* fulfilled low, fulfilled high
Preference(p, pool) ==
    <<ClassOf(p, pool, FALSE, FALSE), ClassOf(p, pool, FALSE, TRUE),
      ClassOf(p, pool, TRUE, FALSE), ClassOf(p, pool, TRUE, TRUE)>>

\* the first non-empty set of a sequence of sets, {} if there is none
FirstNonEmpty(classes) ==
    IF \A k \in DOMAIN classes : classes[k] = {} THEN {}
    ELSE classes[CHOOSE k \in DOMAIN classes :
                     classes[k] # {} /\ \A j \in 1..(k - 1) : classes[j] = {}]

\* C28: without a target resource best_given_objective returns the index of
\* an objective the player holds, of the first non-empty class among
\* unfulfilled low-value, unfulfilled high-value, fulfilled low-value and
\* fulfilled high-value (fulfilled by the pool passed); it returns no index
\* only if the player holds nothing.
C28_GenericChoice ==
    [][(Selects /\ probe.helper.other_resource = NoResource) =>
          LET first == FirstNonEmpty(Preference(probe.self, probe.helper.pool))
          IN IF DOMAIN objectives[probe.self] = {} THEN scored'.total = None
             ELSE scored'.total \in first /\ scored'.total \in DOMAIN objectives[probe.self]]_vars

\* a player whose objectives are all fulfilled by the pool and of high value
\* was asked without a target, and the index returned is that of objective 0
C28_Witness ==
    /\ scored.calls >= 1
    /\ probe.helper.name = "best_given_objective"
    /\ probe.helper.other_resource = NoResource
    /\ ClassOf(probe.self, probe.helper.pool, TRUE, TRUE) = DOMAIN objectives[probe.self]
    /\ scored.total = 0
    /\ 0 \in DOMAIN objectives[probe.self]

\* the objectives of a class whose category is the target resource
OfTarget(p, class, target) == {i \in class : upper(objectives[p][i][1][1]) = target}

\* C29: with a target resource best_given_objective returns an objective of
\* the target's category from the first of the classes unfulfilled low-value,
\* unfulfilled high-value and fulfilled low-value that has one, whatever its
\* index; if none of the three has one it returns what it returns without a
\* target.
C29_TargetedChoice ==
    [][(Selects /\ probe.helper.other_resource # NoResource) =>
          LET classes == Preference(probe.self, probe.helper.pool)
              targeted == FirstNonEmpty([k \in 1..3 |->
                              OfTarget(probe.self, classes[k], probe.helper.other_resource)])
          IN IF targeted # {} THEN scored'.total \in targeted
             ELSE scored'.total \in FirstNonEmpty(classes)]_vars

(***************************************************************************)
(* invite and move with an objective to drop and an objective to give.     *)
(***************************************************************************)
\* a test's call of invite or move ends
Helps ==
    /\ pc = "constructed"
    /\ probe.helper.name \in {"invite", "move"}
    /\ last'.variation = 0
    /\ last'.a = probe.self

\* C26: a call of invite or of move that is passed both an objective to drop
\* and an objective to give, whatever the two indices, raises its error and
\* has dropped nothing, given nothing and changed no team.
C26_DropAndGiveExcluded ==
    [][(/\ Helps
        /\ probe.helper.objective_to_drop # None
        /\ probe.helper.objective_to_give # None) =>
          /\ raised' = "Exception"
          /\ objectives' = objectives
          /\ dropped_objectives' = dropped_objectives
          /\ traded_objectives' = traded_objectives
          /\ team' = team
          /\ teams' = teams]_vars

(***************************************************************************)
(* What a protocol returns.                                                *)
(***************************************************************************)
\* a call of one of the variations 1-5 on the constructed model returns
Returns ==
    /\ pc = "constructed"
    /\ pc' = "constructed"
    /\ last'.variation \in 1..5

\* the members of every team of a team list, as sets
Members(ts) == [t \in DOMAIN ts |-> Range(ts[t].players)]

\* the step changes the membership of a team or the holdings of a player
StateChanged ==
    \/ team' # team
    \/ Members(teams') # Members(teams)
    \/ objectives' # objectives

\* C21: a call of a variation returns true if and only if it has changed the
\* membership of some team or the objectives some player holds; when it
\* returns false, memberships, holdings and the dropped and traded lists are
\* what they were.
C21_TrueIffChanged ==
    [][Returns =>
          /\ last'.ret <=> StateChanged
          /\ ~last'.ret =>
                /\ team' = team
                /\ teams' = teams
                /\ objectives' = objectives
                /\ dropped_objectives' = dropped_objectives
                /\ traded_objectives' = traded_objectives]_vars

(***************************************************************************)
(* The self-interested decision of variations 1, 2 and 3.                  *)
(***************************************************************************)
\* the resources player p would have on the team of player q, and those it
\* would have if q joined its team
IfMoves(p, q) == {resource[x] : x \in TeamMates(q)} \cup {resource[p]}
IfStays(p, q) == {resource[x] : x \in TeamMates(p)} \cup {resource[q]}

\* the score of player p in a context without its objective i (all of its
\* objectives if it does not hold i)
Without(p, i, context) ==
    HeldValue(p, context)
        - (IF i \in DOMAIN objectives[p] THEN ValueIn(objectives[p][i], context) ELSE 0)

\* what the objective i of player p is worth in a context (0 if p has no i)
Worth(p, i, context) ==
    IF i \in DOMAIN objectives[p] THEN ValueIn(objectives[p][i], context) ELSE 0

\* the objectives player p may pick as its cost for a pool of resources
Offers(p, pool) ==
    IF DOMAIN objectives[p] = {} THEN {None} ELSE FirstNonEmpty(Preference(p, pool))

\* the deltas of the initiator a and of the responder b under variation v,
\* one record for every pair of objectives a may pick (none under variation
\* 3): a drops or gives the picked objective, and under variation 2 b
\* receives the one of the other alternative
Deltas(v, a, b) ==
    {[a_move |-> Without(a, IF v = 3 THEN None ELSE m, IfMoves(a, b)) - Score_(a),
      a_stay |-> Without(a, IF v = 3 THEN None ELSE s, IfStays(a, b)) - Score_(a),
      b_move |-> HeldValue(b, IfMoves(b, a))
                   + (IF v = 2 THEN Worth(a, s, IfMoves(b, a)) ELSE 0) - Score_(b),
      b_stay |-> HeldValue(b, IfStays(b, a))
                   + (IF v = 2 THEN Worth(a, m, IfStays(b, a)) ELSE 0) - Score_(b)] :
        s \in Offers(a, IfStays(a, b)), m \in Offers(a, IfMoves(a, b))}

\* a call of variation 1, 2 or 3 by self-interested players a and b returns
SelfishReturn(a, b) ==
    /\ pc = "constructed"
    /\ pc' = "constructed"
    /\ ~args.community_motivation
    /\ last'.variation \in 1..3
    /\ last'.a = a
    /\ last'.b = b

\* the step changes no team, holding or list
NothingChanges ==
    /\ team' = team
    /\ teams' = teams
    /\ objectives' = objectives
    /\ dropped_objectives' = dropped_objectives
    /\ traded_objectives' = traded_objectives

\* C24: when the initiator of a self-interested variation 1, 2 or 3 gains
\* nothing by moving and nothing by staying (both deltas at most 0), the call
\* returns false and changes no team, holding or list, whatever the
\* responder would gain.
C24_NoGainNoAction ==
    [][\A a, b \in Players : SelfishReturn(a, b) =>
          ((\A d \in Deltas(args.variation, a, b) : d.a_move <= 0 /\ d.a_stay <= 0) =>
             ~last'.ret /\ NothingChanges)]_vars

\* an initiator that would gain nothing has met a responder that would gain
\* by both alternatives, and the call returned false
C24_Witness ==
    /\ pc = "constructed"
    /\ ~args.community_motivation
    /\ last.variation \in 1..3
    /\ ~last.ret
    /\ \A d \in Deltas(args.variation, last.a, last.b) :
          d.a_move <= 0 /\ d.a_stay <= 0 /\ d.b_move > 0 /\ d.b_stay > 0

\* the initiator a has joined the team of the responder b, and the call
\* returned true
MoveExecuted(a, b) ==
    /\ last'.ret
    /\ team'[a] = team[b]
    /\ team'[b] = team[b]
    /\ a \in Range(teams'[team[b]].players)

\* the call returned false and changed nothing
Refused == ~last'.ret /\ NothingChanges

\* C23 as stated: when the initiator's move delta is at least 0 and more than
\* its stay delta, the initiator joins the responder's team if and only if
\* the responder's delta for accepting is at least 0 and at least its delta
\* for moving itself; otherwise the call is refused and nothing changes.
C23_MoveIffResponderNotWorse ==
    [][\A a, b \in Players : SelfishReturn(a, b) =>
          \A d \in Deltas(args.variation, a, b) :
             (d.a_move >= 0 /\ d.a_move > d.a_stay) =>
                IF d.b_stay >= 0 /\ d.b_stay >= d.b_move
                THEN MoveExecuted(a, b) ELSE Refused]_vars

\* C23 amended: when the initiator's move delta is more than 0 and more than
\* its stay delta, the initiator joins the responder's team if and only if
\* the responder's delta for accepting is more than 0 and at least its delta
\* for moving itself; otherwise the call is refused and nothing changes.
C23_MoveIffResponderGains ==
    [][\A a, b \in Players : SelfishReturn(a, b) =>
          \A d \in Deltas(args.variation, a, b) :
             (d.a_move > 0 /\ d.a_move > d.a_stay) =>
                IF d.b_stay > 0 /\ d.b_stay >= d.b_move
                THEN MoveExecuted(a, b) ELSE Refused]_vars

\* an initiator that preferred to move has joined the team of a responder
\* that gained by it
C23_Witness ==
    /\ pc = "constructed"
    /\ ~args.community_motivation
    /\ last.variation \in 1..3
    /\ last.ret
    /\ team[last.a] = team[last.b]
    /\ Len(teams[team[last.a]].players) >= 2
    /\ \E i \in DOMAIN teams[team[last.a]].players :
          /\ i > 1
          /\ teams[team[last.a]].players[i] = last.a
          /\ teams[team[last.a]].players[i - 1] = last.b

\* the invitee b has left its former team and is a member of the team of
\* the inviter a
InviteExecuted(a, b) ==
    /\ team'[b] = team[a]
    /\ team'[a] = team[a]
    /\ b \in Range(teams'[team[a]].players)
    /\ team[b] # team[a] => b \notin Range(teams'[team[b]].players)

\* C22: when the initiator of a self-interested variation 1, 2 or 3 has a
\* stay delta of at least 0 that is more than its move delta, it invites the
\* responder, and whenever the invitation is accepted (the call returns true)
\* the responder has left its former team and is a member of the
\* initiator's team.
C22_AcceptedInviteMovesInvitee ==
    [][\A a, b \in Players : SelfishReturn(a, b) =>
          \A d \in Deltas(args.variation, a, b) :
             (d.a_stay >= 0 /\ d.a_stay > d.a_move /\ last'.ret) => InviteExecuted(a, b)]_vars

(***************************************************************************)
(* Who pays the cost of variations 1 and 2.                                *)
(***************************************************************************)
\* a call of variation 1 or 2 returns
Returns12 ==
    /\ pc = "constructed"
    /\ pc' = "constructed"
    /\ last'.variation \in 1..2

\* the step drops or gives away no objective
NothingPaid ==
    /\ objectives' = objectives
    /\ dropped_objectives' = dropped_objectives
    /\ traded_objectives' = traded_objectives

TeamsAfter(mover, host) == [team EXCEPT ![mover] = team[host]]

\* the change of the score of player p when the mover joins the host's team:
\* its objectives scored against the resources of its team after the move
ChangeOf(p, mover, host) ==
    LET after == TeamsAfter(mover, host)
    IN HeldValue(p, {resource[q] : q \in {x \in Players : after[x] = after[p]}}) - Score_(p)

\* the members of the teams of a and b other than a and b themselves
Others(a, b) == (TeamMates(a) \cup TeamMates(b)) \ {a, b}

\* the aggregate delta of the move of the mover to the host's team: the two
\* own deltas and the changes of the other members of both teams
RECURSIVE SumOfChanges(_, _, _)
SumOfChanges(S, mover, host) ==
    IF S = {} THEN 0
    ELSE LET p == CHOOSE x \in S : TRUE
         IN ChangeOf(p, mover, host) + SumOfChanges(S \ {p}, mover, host)

Aggregate(own, a, b, mover, host) == own + SumOfChanges(Others(a, b), mover, host)

\* a call of variation 1, 2 or 3 by community-motivated players a and b returns
CommunityReturn(a, b) ==
    /\ pc = "constructed"
    /\ pc' = "constructed"
    /\ args.community_motivation
    /\ last'.variation \in 1..3
    /\ last'.a = a
    /\ last'.b = b

\* C27: community-motivated variations 1, 2 and 3 weigh the move of A to B's
\* team and the move of B to A's team by the two players' own deltas plus the
\* changes of score of every other member of both teams under the resources
\* its team has after the move; the move with the larger aggregate, if more
\* than 0, is made, either on a tie above 0, and nothing changes when neither
\* aggregate is more than 0.
C27_AggregateDecides ==
    [][\A a, b \in Players : CommunityReturn(a, b) =>
          \A d \in Deltas(args.variation, a, b) :
             LET a_to_b == Aggregate(d.a_move + d.b_stay, a, b, a, b)
                 b_to_a == Aggregate(d.a_stay + d.b_move, a, b, b, a)
                 AMoves == team' = TeamsAfter(a, b)
                 BMoves == team' = TeamsAfter(b, a)
             IN IF a_to_b > 0 /\ a_to_b > b_to_a THEN AMoves
                ELSE IF b_to_a > 0 /\ b_to_a > a_to_b THEN BMoves
                ELSE IF a_to_b > 0 THEN AMoves \/ BMoves
                ELSE ~last'.ret /\ NothingChanges]_vars

(***************************************************************************)
(* The hypothetical totals and the moves they stand for.                   *)
(***************************************************************************)
\* player p's currentTotal()
Current(p) == Total(World, p, Kw)

\* a call of variation 3 or 4, which cost no objective, returns
FreeReturn ==
    /\ pc = "constructed"
    /\ pc' = "constructed"
    /\ last'.variation \in 3..4
    /\ objectives' = objectives

\* C31: a hypothetical total is the total after the move it stands for: when
\* a player joins another, existing team, its currentTotal(team) before the
\* move is its currentTotal() after it, and for every member p of the team
\* that player q joins, p.currentTotal(q, object_is_team=False) before is
\* p.currentTotal() after; when two players found a new team, each one's
\* currentTotal(other, object_is_team=False, new_team=True) before is its
\* currentTotal() after.
C31_HypotheticalIsReal ==
    [][FreeReturn =>
          \A q \in Players : team'[q] # team[q] =>
             IF team'[q] \in DOMAIN teams
             THEN /\ Total(World, q, [Kw EXCEPT !.test_object = team'[q]]) = Current(q)'
                  /\ \A p \in Players \ {q} : team[p] = team'[q] /\ team'[p] = team[p] =>
                        Total(World, p, [Kw EXCEPT !.test_object = q,
                                                   !.object_is_team = FALSE]) = Current(p)'
             ELSE \A p \in Players \ {q} : team'[p] = team'[q] =>
                     Total(World, q, [Kw EXCEPT !.test_object = p, !.object_is_team = FALSE,
                                                !.new_team = TRUE]) = Current(q)']_vars

\* a player has joined a team of two whose three resources differ, and scores
\* there
C31_Witness ==
    /\ pc = "constructed"
    /\ last.variation = 3
    /\ last.ret
    /\ \E q \in {last.a, last.b} :
          /\ Len(teams[team[q]].players) = 3
          /\ teams[team[q]].players[3] = q
          /\ Cardinality({resource[x] : x \in TeamMates(q)}) = 3
          /\ Current(q) > 0

(***************************************************************************)
(* The pairs of a round.                                                   *)
(***************************************************************************)
\* the players met by following the pairs of ps from the players of S
RECURSIVE Followed(_, _)
Followed(ps, S) ==
    LET next == S \cup {pair[2] : pair \in {x \in ps : x[1] \in S}}
    IN IF next = S THEN S ELSE Followed(ps, next)

\* C32: the pairs of a round leave no player out: every player is the first
\* of exactly one pair and the second of exactly one pair, no pair holds a
\* player twice, and following the pairs from any player leads through all
\* of the players (one circle).
C32_PairsAreOneCircle ==
    [][(pc = "shuffle" /\ pc' = "round") =>
          /\ \A p \in Players :
                /\ Cardinality({pair \in pairs_of_players' : pair[1] = p}) = 1
                /\ Cardinality({pair \in pairs_of_players' : pair[2] = p}) = 1
                /\ Followed(pairs_of_players', {p}) = Players
          /\ \A pair \in pairs_of_players' : pair[1] # pair[2]]_vars

\* a round of four players starts with an order other than 0, 1, 2, 3
C32_Witness ==
    /\ pc = "round"
    /\ Cardinality(Players) = 4
    /\ Cardinality(pairs_of_players) = 4
    /\ <<0, 2>> \in pairs_of_players
    /\ <<2, 1>> \in pairs_of_players

(***************************************************************************)
(* The encounters and the switches run() reports.                          *)
(***************************************************************************)
\* the successful calls counted so far: those of the rounds before and those
\* of the round under way
Successes == loop.total_merges + loop.merges_this_round

\* one more encounter, up to the bound of the count
OneMoreEncounter ==
    loop'.total_encounters = Capped(loop.total_encounters \div EncounterUnit + 1) * EncounterUnit

\* the step calls the protocol, or counts a call
Invokes ==
    \/ last' # last
    \/ entityVars' # entityVars
    \/ loop'.total_encounters # loop.total_encounters
    \/ loop'.merges_this_round > loop.merges_this_round

\* C33: run() calls the protocol only for a pair whose players are on
\* different teams when the pair is met; every call adds one encounter and,
\* if it returned true, one switch, and nothing else adds any; so when the
\* loop is left with a threshold of at least 1 the encounters reported are
\* the calls made and the switches reported are the calls that returned
\* true: at most as many switches as encounters, and at least one encounter.
C33_EncountersAndSwitches ==
    /\ [][(args.variation \in 1..5 /\ pc \in {"shuffle", "round"}) =>
             /\ Invokes => Calls /\ team[last'.a] # team[last'.b]
             /\ (Calls /\ pc' = "round") =>
                   /\ OneMoreEncounter
                   /\ loop'.merges_this_round
                         = loop.merges_this_round + (IF last'.ret THEN 1 ELSE 0)
                   /\ loop'.total_merges = loop.total_merges
             /\ ~Calls =>
                   /\ loop'.total_encounters = loop.total_encounters
                   /\ IF pc = "shuffle"
                      THEN /\ loop'.total_merges = Capped(Successes)
                           /\ loop'.merges_this_round = 0
                      ELSE /\ loop'.total_merges = loop.total_merges
                           /\ loop'.merges_this_round = loop.merges_this_round]_vars
    /\ [](/\ args.variation \in 1..5
          /\ pc = "done"
          /\ faux_pareto_rounds_without_merges >= 1
          => /\ loop.merges_this_round = 0
             /\ ReportedSwitches * EncounterUnit <= ReportedEncounters
             /\ ReportedEncounters >= EncounterUnit)

\* a run has ended after a call that returned true and calls that returned
\* false, and after a pair of team mates was passed over
C33_Witness ==
    /\ args.variation \in 1..5
    /\ pc = "done"
    /\ faux_pareto_rounds_without_merges >= 1
    /\ ReportedSwitches >= 1
    /\ ReportedEncounters > ReportedSwitches * EncounterUnit
    /\ ReportedEncounters < 2 * Cardinality(Players) * EncounterUnit

(***************************************************************************)
(* The threshold run() leaves its loop at.                                 *)
(***************************************************************************)
\* the threshold C34 names for the arguments of the model
NamedThreshold ==
    IF args.variation = 3 THEN 5 ELSE args.faux_pareto_rounds_without_merges

\* C34: under variation 3 run() leaves its loop after 5 rounds in a row
\* without a successful action, whatever value was passed as
\* faux_pareto_rounds_without_merges (above 5, below 5, 0 or negative); under
\* the other variations it leaves it when the count of such rounds is the
\* value passed.
C34_ThresholdOfVariation3 ==
    /\ [][RoundEnds => ((pc' = "done") <=> (loop'.rounds_without_merges = NamedThreshold))]_vars
    /\ [](pc \in {"shuffle", "round", "done"} =>
             faux_pareto_rounds_without_merges = NamedThreshold)

\* a run of variation 3 that was passed a negative threshold has ended after
\* 5 rounds without a successful action
C34_Witness ==
    /\ args.variation = 3
    /\ args.faux_pareto_rounds_without_merges < 0
    /\ pc = "done"
    /\ loop.rounds_without_merges = 5

(***************************************************************************)
(* The trades of variation 5.                                              *)
(***************************************************************************)
\* C35: under variation 5, in both motivation modes, a call that trades
\* leaves community.total() greater than it was, and community.total() never
\* exceeds the potential total of the objective table; so a run makes
\* finitely many trades and, with a threshold of at least 1, leaves its loop.
C35_TradesEnd ==
    /\ [][(Calls /\ pc' = "round" /\ (last'.ret \/ objectives' # objectives)) =>
             CommunityTotal(World)' > CommunityTotal(World)]_vars
    /\ [](CommunityTotal(World) <= potentialTotal(objective_pool.table))
    /\ <>(pc = "done")

\* a run of variation 5 has ended after a trade
C35_Witness ==
    /\ args.variation = 5
    /\ pc = "done"
    /\ Len(traded_objectives) = 2
    /\ ReportedSwitches = 1
    /\ CommunityTotal(World) > loop.before_total

(***************************************************************************)
(* What a move is worth to the players and to the community.               *)
(***************************************************************************)
\* C36: a call of variation 3 by self-interested players that changes the
\* team of a player leaves both players of the call with a currentTotal()
\* strictly greater than the one they had before it.
C36_BothBetterOff ==
    [][\A a, b \in Players :
          (SelfishReturn(a, b) /\ last'.variation = 3 /\ team' # team) =>
             /\ Score_(a)' > Score_(a)
             /\ Score_(b)' > Score_(b)]_vars

\* self-interested players of variation 3 share a team of three after a call
\* that returned true
C36_Witness ==
    /\ pc = "constructed"
    /\ ~args.community_motivation
    /\ last.variation = 3
    /\ last.ret
    /\ team[last.a] = team[last.b]
    /\ Len(teams[team[last.a]].players) = 3
    /\ Current(last.a) > 0
    /\ Current(last.b) > 0

\* C37: with community motivation, a call of variation 1, 2, 3 or 4 that
\* returns true leaves community.total(), the sum of the scores of all
\* players (the team mates a mover leaves behind among them), strictly
\* greater than it was before the call.
C37_CommunityGains ==
    [][(/\ pc = "constructed"
        /\ pc' = "constructed"
        /\ args.community_motivation
        /\ last'.variation \in 1..4
        /\ last'.ret) =>
          CommunityTotal(World)' > CommunityTotal(World)]_vars

(***************************************************************************)
(* The objective a protocol charges.                                       *)
(***************************************************************************)
\* C38: a call of variation 1, 2 or 5, in either motivation mode, never looks
\* up an objective its player does not hold, a player without objectives
\* included: the call ends without an exception, and no call ends with a
\* change of team made and its cost not paid.
C38_CostIsAlwaysHeld ==
    [][(pc = "constructed" /\ last'.variation \in {1, 2, 5}) =>
          /\ raised' = "none"
          /\ pc' = "constructed"
          /\ (team' # team /\ last'.variation \in 1..2) => ~NothingPaid]_vars

====
